---------------------------- MODULE Spec2Model ----------------------------
(***************************************************************************)
(* State-machine model of the WhatsApp <-> CRM gateway:                    *)
(*   - GHLWebhookService  (webhook dispatcher with in-process retry timers)*)
(*   - SessionManager     (session registry / supervisor)                  *)
(*   - ReconnectionManager (back-off reconnection controller)              *)
(*   - MessageQueue       (per-session outbound queue and its worker)      *)
(* Each subsystem has its own next-state relation and specification; the   *)
(* variables of the other subsystems stay unchanged under it.              *)
(***************************************************************************)
EXTENDS Integers, Sequences, FiniteSets, TLC

(***************************************************************************)
(* Bounds of the model (not program constants).                            *)
(***************************************************************************)
\* largest number of POSTs followed for one message
MaxPosts == 6

\* largest number of client sockets created in one run
MaxSocks == 2

\* largest number of reconnection timers pending at once for one session
MaxTimers == 2

\* largest number of messages enqueued in one run of the queue
MaxMsgs == 3

\* largest number of arrays the queue makes for a session (one per clearQueue)
MaxArrays == 2

\* largest number of processQueue activations alive at once
MaxWorkers == 3

\* seconds followed in a run of the queue
MaxTime == 8

\* seconds followed in a run of the bulk send that fills the rate limit
ThrottleHorizon == 126

\* seconds of send or timer latency followed in one run
MaxLate == 2

\* largest number of inbound messages the client delivers in one run
MaxInbound == 4

\* largest number of messages in one messages.upsert batch
MaxBatch == 2

\* longest argument of formatPhoneNumber, in tokens
MaxPhoneLen == 3

\* largest number of successive formatPhoneNumber calls
MaxFormats == 2

\* largest attempt counter a delay is computed from
MaxExponent == 8

\* largest number of saveMessage calls in one run
MaxSaved == 3

\* number of calendar months a run may span
MaxMonths == 2

\* checkSubscriptionLimits calls followed while they wait for the usage query
MaxGuards == 1

(***************************************************************************)
(* Program constants.                                                      *)
(***************************************************************************)
\* GHLWebhookService constructor: this.maxRetries = 3
maxRetries == 3

\* ReconnectionManager constructor: this.maxAttempts = 5
maxAttempts == 5

\* MessageQueue constructor: rateLimits.messagesPerMinute = 20
messagesPerMinute == 20

\* MessageQueue constructor: rateLimits.delayBetweenMessages = 3000 (ms), in s
delayBetweenMessages == 3

\* shouldThrottle's window and processQueue's "await this.delay(60000)", in s
refillInterval == 60

\* processQueue: "await this.delay(5000)" before a retry, in s
retryDelay == 5

\* processQueue: "if (message.attempts >= 3)"
maxSendAttempts == 3

\* ReconnectionManager constructor: baseDelay = 5000 (ms), in s
baseDelay == 5

\* ReconnectionManager constructor: maxDelay = 300000 (ms), in s
maxDelay == 300

\* inbound messages handed to the dispatcher
MsgIds == {"m1", "m2"}

\* ids of the rows of table organizations
Orgs == {"o1", "o2"}

\* messages.direction
Directions == {"inbound", "outbound"}

\* session ids that have a row in whatsapp_sessions
SessionIds == {"s1", "s2"}

\* the sessions that the API edge, the network and the queue act on
LiveIds == {"s1"}

\* whatsapp_sessions.auth_state of a row that holds one
AuthState == "creds"

\* LIMIT of the listings of pending messages
listLimit == 100

\* value of a column / field that is null
Null == "null"

\* Map.get of a key the Map does not hold (reconnectionAttempts)
Absent == -1

\* sessions.get(sessionId) of an id that is not registered
NoHandle == [sock |-> 0, status |-> "none", phoneNumber |-> Null]

\* who called createSession: the API edge, the controller's back-off timer,
\* the supervisor's own 3 s timer of the close handler
Origins == {"api", "reconnect", "supervisor", "restore"}

\* sock.user.id.split(':')[0] of a paired client
Phone == "5551234567"

VARIABLES
  \* ---- GHLWebhookService -------------------------------------------------
  webhook_url,     \* organizations.webhook_url of the one organisation
  endpoint,        \* behaviour of the endpoint: "down" fails every call
  posts,           \* [MsgIds -> Nat]: axios.post calls made for a message
  retryTimers,     \* [MsgIds -> [0..maxRetries-1 -> Nat]]: pending setTimeout
                   \* callbacks of scheduleRetry, by their retryCount
  webhook_logs,    \* rows of table webhook_logs: [MsgIds -> rows of that
                   \* message, in insertion order]
  messages,        \* [MsgIds -> row of table messages]
  pendingResult,   \* what the last listing of pending messages returned:
                   \* [op, org, rows]
  \* ---- SessionManager / ReconnectionManager ------------------------------
  sessions,        \* this.sessions: [SessionIds -> handle or NoHandle]
  socks,           \* the client sockets made so far:
                   \* <<[sid, state, callbacks, onDisconnect]>>
  pendingCreates,  \* [SessionIds -> [Origins -> Nat]]: createSession calls
                   \* suspended in "await useMultiFileAuthState"
  db,              \* [SessionIds -> row of table whatsapp_sessions]
  activeSessions,  \* restoreAllSessions: the rows getActiveSessions returned
  restorePos,      \* restoreAllSessions: 0 before the call, then the index of
                   \* the row whose createSession is awaited, and
                   \* Len(activeSessions) + 1 after the loop
  reconnectionAttempts, \* ReconnectionManager's Map: [SessionIds -> Nat or Absent]
  reconnTimers,    \* [SessionIds -> Nat]: pending setTimeout of handleDisconnection
  supTimers,       \* [SessionIds -> Nat]: pending 3 s setTimeout of the close handler
  rateTimers,      \* [SessionIds -> Nat]: pending 15 min setTimeout of handleRateLimit
  authFiles,       \* [SessionIds -> BOOLEAN]: the directory sessionDir/sessionId exists
  unhandled,       \* places where a promise rejection was left unhandled
  externalReset,   \* [SessionIds -> BOOLEAN]: resetAttempts or an API create
                   \* happened since the status last became error
  destroyedAt,     \* [SessionIds -> Nat or Absent]: the number of queue items
                   \* made when destroySession last removed the session, while
                   \* nothing was created or scheduled for it since
  lastOp,          \* the handler that ran last, [op, sid, result], for the
                   \* handlers whose step a property speaks about
  \* ---- MessageQueue -----------------------------------------------------
  queues,          \* this.queues: [SessionIds -> index into arrays, 0 = no entry]
  arrays,          \* the arrays the queue made: <<sequence of item ids>>
  processing,      \* this.processing: [SessionIds -> "true", "false", "absent"]
  workers,         \* the processQueue activations that have not returned:
                   \* <<[sid, arr, pc, msg, wake, at, ok]>>
  qitems,          \* the queue items made so far, by id: <<[type, attempts, ..]>>
  stats,           \* this.stats: [SessionIds -> [sent, lastReset] or NoStats]
  now,             \* the clock, in seconds
  lateTicks,       \* seconds of latency spent so far
  sendTimes,       \* the times at which the sends that succeeded were started
  \* ---- SessionManager messages.upsert handler -----------------------------
  delivered,       \* number of inbound messages the client has emitted; they
                   \* are numbered in the order of their arrival
  upserts,         \* the handler activations that have not returned: for each
                   \* the messages it still has to handle, the first one
                   \* waiting in "await this.persistence.loadAuthState"
  published,       \* the messages passed to callbacks.onMessage, in call order
  \* ---- functions without state ------------------------------------------
  phoneArg,        \* formatPhoneNumber: the argument of the first call
  formatted,       \* formatPhoneNumber: the results of the calls made, each
                   \* call after the first taking the result before it
  attemptsArg,     \* handleDisconnection: the value of the attempt counter
  delayOut,        \* handleDisconnection: the delay computed from it, or Absent
  \* ---- SessionPersistence.saveMessage and the usage trigger --------------
  stored,          \* table messages: [MessageRows -> number of rows like it]
  usage_tracking,  \* table usage_tracking: [Orgs -> [Months -> row or NoUsage]]
  month,           \* the calendar month of NOW(), counted from the first one
  saveResult,      \* outcome of the last saveMessage call, Null before it
  \* ---- checkSubscriptionLimits / checkAccountLimit -----------------------
  organizations,   \* table organizations: [Orgs -> [max_accounts,
                   \* max_messages_per_month]]
  organization_id, \* whatsapp_sessions.organization_id: [SessionIds -> Orgs]
  guards,          \* the checkSubscriptionLimits calls waiting for the usage
                   \* query: <<organisation, currentMonth>>
  guardResult      \* what the last call of either check answered

webhookVars == <<webhook_url, endpoint, posts, retryTimers, webhook_logs, messages,
                 pendingResult>>

restoreVars == <<activeSessions, restorePos>>

sessionVars == <<sessions, socks, pendingCreates, db, reconnectionAttempts,
                 reconnTimers, supTimers, unhandled, externalReset, destroyedAt,
                 lastOp, restoreVars, rateTimers, authFiles>>

queueVars == <<queues, arrays, processing, workers, qitems, stats, now,
               lateTicks, sendTimes>>

inboundVars == <<delivered, upserts, published>>

pureVars == <<phoneArg, formatted, attemptsArg, delayOut>>

limitVars == <<organizations, organization_id, guards, guardResult>>

storeVars == <<stored, usage_tracking, month, saveResult, limitVars>>

vars == <<webhookVars, sessionVars, queueVars, inboundVars, pureVars, storeVars>>

(***************************************************************************)
(* GHLWebhookService                                                       *)
(***************************************************************************)
RetryCounts == 0 .. (maxRetries - 1)

\* ids a successful endpoint may return in response.data.messageId
ResponseIds == {"r1", "r2"}

\* the order in which the rows of table messages were inserted
Arrival(m) == IF m = "m1" THEN 1 ELSE 2

\* a row of table messages as its INSERT leaves it: status DEFAULT 'sent',
\* synced_to_ghl DEFAULT FALSE, timestamp DEFAULT NOW(); dispatched tells
\* that the inbound pipeline has passed the message to sendMessageToGHL
messageRow(organizationId, direction, timestamp) ==
  [dispatched |-> FALSE, status |-> "sent", synced_to_ghl |-> FALSE,
   ghl_message_id |-> Null, organization_id |-> organizationId,
   direction |-> direction, timestamp |-> timestamp]

\* the tables and timers of the dispatcher before any message is handled
InitWebhookStore ==
  /\ posts = [m \in MsgIds |-> 0]
  /\ retryTimers = [m \in MsgIds |-> [r \in RetryCounts |-> 0]]
  /\ webhook_logs = [m \in MsgIds |-> <<>>]
  /\ messages = [m \in MsgIds |-> messageRow("o1", "inbound", Arrival(m))]
  /\ pendingResult = [op |-> "none", org |-> Null, rows |-> <<>>]

InitWebhook ==
  /\ webhook_url \in {Null, "https://hook.test/in"}
  /\ endpoint \in {"down", "flaky"}
  /\ InitWebhookStore

\* the dispatcher of an organisation that has no webhook configured
InitWebhookIdle ==
  /\ webhook_url = Null
  /\ endpoint = "down"
  /\ InitWebhookStore

\* logWebhook: INSERT INTO webhook_logs
logWebhook(logs, m, status, responseId) ==
  [logs EXCEPT ![m] = Append(@, [message_id |-> m, status |-> status,
                                 response_id |-> responseId])]

\* setTimeout(..., delay) of scheduleRetry: one more pending callback
addTimer(timers, m, r) ==
  [timers EXCEPT ![m][r] = @ + 1]

\* scheduleRetry without the UPDATE of its give-up branch: the message is
\* never marked failed
scheduleRetry_GivesUpSilently(timers, msgs, m, retryCount) ==
  IF retryCount >= maxRetries
  THEN <<timers, msgs>>
  ELSE <<addTimer(timers, m, retryCount), msgs>>

\* scheduleRetry(organizationId, messageData, retryCount): the pair
\* <<timers, messages>> after the call
scheduleRetry(timers, msgs, m, retryCount) ==
  IF retryCount >= maxRetries
  THEN <<timers, [msgs EXCEPT ![m].status = "failed"]>>
  ELSE <<addTimer(timers, m, retryCount), msgs>>

\* the 2xx branch of sendMessageToGHL: success log, then the UPDATE of messages
postSucceeds(m, rid, timers) ==
  /\ webhook_logs' = logWebhook(webhook_logs, m, "success", rid)
  /\ messages' = [messages EXCEPT ![m].synced_to_ghl = TRUE,
                                  ![m].ghl_message_id = rid,
                                  ![m].dispatched = TRUE]
  /\ retryTimers' = timers

\* the catch branch of sendMessageToGHL: failed log, scheduleRetry with the
\* default retryCount = 0, then the error is re-thrown to the caller
postFails(m, timers) ==
  LET sr == scheduleRetry(timers, [messages EXCEPT ![m].dispatched = TRUE], m, 0)
  IN /\ webhook_logs' = logWebhook(webhook_logs, m, "failed", Null)
     /\ retryTimers' = sr[1]
     /\ messages' = sr[2]

\* sendMessageToGHL called for a message by the inbound pipeline
sendMessageToGHL(m) ==
  /\ ~messages[m].dispatched
  /\ IF webhook_url = Null
     THEN \* no webhook configured: return null, nothing posted or logged
          /\ messages' = [messages EXCEPT ![m].dispatched = TRUE]
          /\ UNCHANGED <<posts, retryTimers, webhook_logs>>
     ELSE /\ posts[m] < MaxPosts
          /\ posts' = [posts EXCEPT ![m] = @ + 1]
          /\ \/ /\ endpoint = "flaky"
                /\ \E rid \in ResponseIds : postSucceeds(m, rid, retryTimers)
             \/ postFails(m, retryTimers)
  /\ UNCHANGED <<webhook_url, endpoint, pendingResult>>
  /\ UNCHANGED <<sessionVars, queueVars, inboundVars, pureVars, storeVars>>

\* the setTimeout callback of scheduleRetry(.., retryCount) fires:
\* sendMessageToGHL again; when it throws, scheduleRetry(.., retryCount + 1).
\* A callback is followed while MaxPosts leaves room for its POST and for
\* the POSTs of the retries that come after it in its chain.
retryTimerFires(m, retryCount) ==
  /\ retryTimers[m][retryCount] > 0
  /\ posts[m] + (maxRetries - 1 - retryCount) < MaxPosts
  /\ posts' = [posts EXCEPT ![m] = @ + 1]
  /\ LET fired == [retryTimers EXCEPT ![m][retryCount] = @ - 1]
     IN \/ /\ endpoint = "flaky"
           /\ \E rid \in ResponseIds : postSucceeds(m, rid, fired)
        \/ LET inner == scheduleRetry(fired, messages, m, 0)
               outer == scheduleRetry(inner[1], inner[2], m, retryCount + 1)
           IN /\ webhook_logs' = logWebhook(webhook_logs, m, "failed", Null)
              /\ retryTimers' = outer[1]
              /\ messages' = outer[2]
  /\ UNCHANGED <<webhook_url, endpoint, pendingResult>>
  /\ UNCHANGED <<sessionVars, queueVars, inboundVars, pureVars, storeVars>>

NextWebhook ==
  \/ \E m \in MsgIds : sendMessageToGHL(m)
  \/ \E m \in MsgIds, r \in RetryCounts : retryTimerFires(m, r)

\* ORDER BY timestamp ASC of the rows whose ids are in S
RECURSIVE orderByTimestamp(_, _)
orderByTimestamp(msgs, S) ==
  IF S = {}
  THEN <<>>
  ELSE LET first == CHOOSE m \in S :
                      \A n \in S : msgs[m].timestamp <= msgs[n].timestamp
       IN <<first>> \o orderByTimestamp(msgs, S \ {first})

\* LIMIT n
limitTo(rows, n) == IF Len(rows) <= n THEN rows ELSE SubSeq(rows, 1, n)

\* the query of SessionPersistence.getPendingGHLSync(organizationId)
getPendingGHLSync(msgs, organizationId) ==
  limitTo(orderByTimestamp(msgs,
            {m \in MsgIds : /\ msgs[m].organization_id = organizationId
                            /\ msgs[m].synced_to_ghl = FALSE
                            /\ msgs[m].direction = "inbound"}),
          listLimit)

\* the query of GHLWebhookService.getPendingMessages(organizationId)
getPendingMessages(msgs, organizationId) ==
  limitTo(orderByTimestamp(msgs,
            {m \in MsgIds : /\ msgs[m].organization_id = organizationId
                            /\ msgs[m].synced_to_ghl = FALSE
                            /\ msgs[m].direction = "inbound"
                            /\ msgs[m].status # "failed"}),
          listLimit)

\* a call of SessionPersistence.getPendingGHLSync
getPendingGHLSyncCall(o) ==
  /\ pendingResult' = [op |-> "getPendingGHLSync", org |-> o,
                       rows |-> getPendingGHLSync(messages, o)]
  /\ UNCHANGED <<webhook_url, endpoint, posts, retryTimers, webhook_logs, messages>>
  /\ UNCHANGED <<sessionVars, queueVars, inboundVars, pureVars, storeVars>>

\* a call of GHLWebhookService.getPendingMessages
getPendingMessagesCall(o) ==
  /\ pendingResult' = [op |-> "getPendingMessages", org |-> o,
                       rows |-> getPendingMessages(messages, o)]
  /\ UNCHANGED <<webhook_url, endpoint, posts, retryTimers, webhook_logs, messages>>
  /\ UNCHANGED <<sessionVars, queueVars, inboundVars, pureVars, storeVars>>

NextListing ==
  \/ NextWebhook
  \/ \E o \in Orgs : getPendingGHLSyncCall(o)
  \/ \E o \in Orgs : getPendingMessagesCall(o)

(***************************************************************************)
(* SessionPersistence (table whatsapp_sessions)                            *)
(***************************************************************************)
\* updateSessionStatus(sessionId, status, phoneNumber = null, errorMessage = null):
\* phone_number = COALESCE($2, phone_number), error_message = $3
updateSessionStatus(row, status, phoneNumber, errorMessage) ==
  [row EXCEPT !.status = status,
              !.phone_number = IF phoneNumber = Null THEN @ ELSE phoneNumber,
              !.error_message = errorMessage]

\* updateReconnectAttempts(sessionId, attempts)
updateReconnectAttempts(row, attempts) ==
  [row EXCEPT !.reconnect_attempts = attempts]

\* resetReconnectAttempts(sessionId)
resetReconnectAttempts(row) ==
  updateReconnectAttempts(row, 0)

(***************************************************************************)
(* SessionManager and ReconnectionManager                                  *)
(***************************************************************************)
\* the row of a session nothing has happened to: the column defaults
DefaultRow ==
  [status |-> "disconnected", phone_number |-> Null, error_message |-> Null,
   reconnect_attempts |-> 0, auth_state |-> Null]

\* no restoreAllSessions call so far
InitRestore ==
  /\ activeSessions = <<>>
  /\ restorePos = 0

InitSession ==
  /\ sessions = [s \in SessionIds |-> NoHandle]
  /\ socks = <<>>
  /\ pendingCreates = [s \in SessionIds |-> [o \in Origins |-> 0]]
  /\ db = [s \in SessionIds |->
             IF s \in LiveIds
             THEN [DefaultRow EXCEPT !.status = "connecting", !.auth_state = AuthState]
             ELSE DefaultRow]
  /\ InitRestore
  /\ reconnectionAttempts = [s \in SessionIds |-> Absent]
  /\ reconnTimers = [s \in SessionIds |-> 0]
  /\ supTimers = [s \in SessionIds |-> 0]
  /\ rateTimers = [s \in SessionIds |-> 0]
  /\ authFiles = [s \in SessionIds |-> FALSE]
  /\ unhandled = {}
  /\ externalReset = [s \in SessionIds |-> FALSE]
  /\ destroyedAt = [s \in SessionIds |-> Absent]
  /\ lastOp = [op |-> "init", sid |-> Null, result |-> Null]

\* lastOp of a handler whose outcome no property reads
otherOp(s) == [op |-> "other", sid |-> s, result |-> Null]

\* number of createSession calls suspended in their await
pendingCount ==
  LET perSession(s) == pendingCreates[s]["api"] + pendingCreates[s]["reconnect"]
                       + pendingCreates[s]["supervisor"] + pendingCreates[s]["restore"]
      RECURSIVE sum(_)
      sum(S) == IF S = {} THEN 0
                ELSE LET s == CHOOSE x \in S : TRUE IN perSession(s) + sum(S \ {s})
  IN sum(SessionIds)

\* history: a session is externally reset by the sessions in resetFor, and
\* loses that mark when its persisted status becomes error
trackReset(resetFor) ==
  externalReset' = [s \in SessionIds |->
                      IF s \in resetFor THEN TRUE
                      ELSE IF db'[s].status = "error" /\ db[s].status # "error"
                           THEN FALSE
                           ELSE externalReset[s]]

\* getAttempts(sessionId): reconnectionAttempts.get(sessionId) || 0
getAttempts(s) ==
  IF reconnectionAttempts[s] = Absent THEN 0 ELSE reconnectionAttempts[s]

\* handleDisconnection with the comparison "attempts > this.maxAttempts": one
\* more reconnection is scheduled before the controller gives up
handleDisconnection_GivesUpLate(s, timers) ==
  LET attempts == getAttempts(s)
  IN IF attempts > maxAttempts
     THEN /\ db' = [db EXCEPT ![s] =
                      updateSessionStatus(@, "error", Null, "Max reconnection attempts exceeded (5)")]
          /\ reconnectionAttempts' = [reconnectionAttempts EXCEPT ![s] = Absent]
          /\ reconnTimers' = timers
     ELSE /\ reconnectionAttempts' = [reconnectionAttempts EXCEPT ![s] = attempts + 1]
          /\ db' = [db EXCEPT ![s] =
                      updateSessionStatus(updateReconnectAttempts(@, attempts + 1),
                                          "connecting", Null, Null)]
          /\ reconnTimers' = [timers EXCEPT ![s] = @ + 1]

\* handleDisconnection(sessionId, reason), with the timers pending when it is
\* called: max-attempts branch, or increment, persist, status connecting and
\* setTimeout
handleDisconnection(s, timers) ==
  LET attempts == getAttempts(s)
  IN IF attempts >= maxAttempts
     THEN /\ db' = [db EXCEPT ![s] =
                      updateSessionStatus(@, "error", Null, "Max reconnection attempts exceeded (5)")]
          /\ reconnectionAttempts' = [reconnectionAttempts EXCEPT ![s] = Absent]
          /\ reconnTimers' = timers
     ELSE /\ reconnectionAttempts' = [reconnectionAttempts EXCEPT ![s] = attempts + 1]
          /\ db' = [db EXCEPT ![s] =
                      updateSessionStatus(updateReconnectAttempts(@, attempts + 1),
                                          "connecting", Null, Null)]
          /\ reconnTimers' = [timers EXCEPT ![s] = @ + 1]

\* getActiveSessions(): status IN ('connected', 'connecting') AND auth_state
\* IS NOT NULL
getActiveSessions ==
  {s \in SessionIds : /\ db[s].status \in {"connected", "connecting"}
                      /\ db[s].auth_state # Null}

\* the orders in which a query without ORDER BY may return the rows of S
Perms(S) ==
  {q \in [1 .. Cardinality(S) -> S] :
     \A i \in DOMAIN q, j \in DOMAIN q : i # j => q[i] # q[j]}

\* the loop of restoreAllSessions from index pos on, up to its next await of
\* a createSession that suspends: a createSession that throws at once
\* ("already exists") is caught, the row gets status error with the message
RECURSIVE restoreLoop(_, _, _, _)
restoreLoop(list, pos, rows, registry) ==
  IF pos > Len(list)
  THEN [pos |-> pos, db |-> rows, awaits |-> Null]
  ELSE IF registry[list[pos]] # NoHandle
       THEN restoreLoop(list, pos + 1,
                        [rows EXCEPT ![list[pos]] =
                           updateSessionStatus(@, "error", Null, "already exists")],
                        registry)
       ELSE [pos |-> pos, db |-> rows, awaits |-> list[pos]]

\* restoreAllSessions goes on after the createSession it awaited has settled
restoreContinues(pend, rows, registry) ==
  LET r == restoreLoop(activeSessions, restorePos + 1, rows, registry)
  IN /\ r.awaits # Null => Len(socks) + pendingCount < MaxSocks
     /\ restorePos' = r.pos
     /\ db' = r.db
     /\ pendingCreates' = IF r.awaits = Null THEN pend
                          ELSE [pend EXCEPT ![r.awaits]["restore"] = @ + 1]

\* restoreAllSessions without its try/catch: the rejection of createSession
\* ends the loop
restoreCatch_Aborts(s, pend, message) ==
  /\ restorePos' = Len(activeSessions) + 1
  /\ db' = db
  /\ pendingCreates' = pend

\* the catch block of restoreAllSessions: status error with error.message,
\* then the next row
restoreCatch(s, pend, message) ==
  restoreContinues(pend,
                   [db EXCEPT ![s] = updateSessionStatus(@, "error", Null, message)],
                   sessions)

\* the synchronous head of createSession: throws when the id is registered,
\* otherwise suspends in "await useMultiFileAuthState(authPath)"
createSessionSuspends(s, origin) ==
  /\ sessions[s] = NoHandle
  /\ Len(socks) + pendingCount < MaxSocks
  /\ pendingCreates' = [pendingCreates EXCEPT ![s][origin] = @ + 1]

\* createSession without the test "this.sessions.has(sessionId)": a call for
\* a registered id goes on to make a second client
createSession_Overwrites(s) ==
  /\ Len(socks) + pendingCount < MaxSocks
  /\ pendingCreates' = [pendingCreates EXCEPT ![s]["api"] = @ + 1]
  /\ lastOp' = [op |-> "createSession", sid |-> s, result |-> "suspended"]
  /\ externalReset' = [externalReset EXCEPT ![s] = TRUE]
  /\ destroyedAt' = [destroyedAt EXCEPT ![s] = Absent]
  /\ UNCHANGED <<sessions, socks, db, reconnectionAttempts, reconnTimers,
                 supTimers, unhandled>>
  /\ UNCHANGED <<webhookVars, queueVars, inboundVars, restoreVars, pureVars, storeVars, rateTimers, authFiles>>

\* createSession(sessionId, callbacks) requested through the API
createSession(s) ==
  /\ IF sessions[s] # NoHandle
     THEN /\ lastOp' = [op |-> "createSession", sid |-> s, result |-> "already exists"]
          /\ UNCHANGED <<pendingCreates, externalReset, destroyedAt>>
     ELSE /\ createSessionSuspends(s, "api")
          /\ lastOp' = [op |-> "createSession", sid |-> s, result |-> "suspended"]
          /\ externalReset' = [externalReset EXCEPT ![s] = TRUE]
          /\ destroyedAt' = [destroyedAt EXCEPT ![s] = Absent]
  /\ UNCHANGED <<sessions, socks, db, reconnectionAttempts, reconnTimers,
                 supTimers, unhandled>>
  /\ UNCHANGED <<webhookVars, queueVars, inboundVars, restoreVars, pureVars, storeVars, rateTimers, authFiles>>

\* createSession resumes after its await: makeWASocket, sessions.set, the
\* listeners, return sock.  The reconnection timer's callback then deletes the
\* controller's counter and resets the persisted one.
createSessionResumes(s, origin) ==
  LET pend == [pendingCreates EXCEPT ![s][origin] = @ - 1]
      registry == [sessions EXCEPT ![s] =
                     [sock |-> Len(socks) + 1, status |-> "connecting",
                      phoneNumber |-> Null]]
  IN /\ pendingCreates[s][origin] > 0
     /\ socks' = Append(socks, [sid |-> s, state |-> "connecting",
                                callbacks |-> origin \in {"api", "supervisor"},
                                onDisconnect |-> 0])
     /\ sessions' = registry
     /\ IF origin = "restore"
        THEN /\ restoreContinues(pend, db, registry)
             /\ UNCHANGED reconnectionAttempts
        ELSE /\ pendingCreates' = pend
             /\ IF origin = "reconnect"
                THEN /\ reconnectionAttempts' = [reconnectionAttempts EXCEPT ![s] = Absent]
                     /\ db' = [db EXCEPT ![s] = resetReconnectAttempts(@)]
                ELSE UNCHANGED <<reconnectionAttempts, db>>
             /\ UNCHANGED restorePos
     /\ authFiles' = [authFiles EXCEPT ![s] = TRUE]
     /\ lastOp' = otherOp(s)
     /\ UNCHANGED <<reconnTimers, supTimers, unhandled, externalReset, destroyedAt,
                    activeSessions>>
     /\ UNCHANGED <<webhookVars, queueVars, inboundVars, pureVars, storeVars, rateTimers>>

\* createSession rejects after its await (the auth state cannot be loaded or
\* the client cannot be made): the API caller gets the error, the controller's
\* timer callback recurses into handleDisconnection, the supervisor's timer
\* callback leaves the rejection unhandled, restoreAllSessions catches the
\* error and sets the status to error with its message
createSessionThrows(s, origin) ==
  LET pend == [pendingCreates EXCEPT ![s][origin] = @ - 1]
  IN /\ pendingCreates[s][origin] > 0
     /\ IF origin = "reconnect"
        THEN /\ pendingCreates' = pend
             /\ handleDisconnection(s, reconnTimers)
             /\ destroyedAt' = [destroyedAt EXCEPT ![s] = Absent]
             /\ UNCHANGED <<unhandled, restorePos>>
        ELSE /\ unhandled' = IF origin = "supervisor"
                             THEN unhandled \cup {"supervisorTimer"} ELSE unhandled
             /\ IF origin = "restore"
                THEN restoreCatch(s, pend, "create failed")
                ELSE /\ pendingCreates' = pend
                     /\ UNCHANGED <<db, restorePos>>
             /\ UNCHANGED <<reconnectionAttempts, reconnTimers, destroyedAt>>
     /\ trackReset({})
     /\ lastOp' = IF origin = "reconnect"
                   THEN [op |-> "handleDisconnection", sid |-> s, result |-> "recursive"]
                   ELSE IF origin = "restore"
                        THEN [op |-> "restoreCatch", sid |-> s, result |-> "create failed"]
                        ELSE otherOp(s)
     /\ UNCHANGED <<sessions, socks, supTimers, activeSessions>>
     /\ UNCHANGED <<webhookVars, queueVars, inboundVars, pureVars, storeVars, rateTimers, authFiles>>

\* the open handler without the phone number: the status is set, the number
\* is neither stored in the handle nor passed to updateSessionStatus
connectionOpen_NoPhone(k) ==
  LET s == socks[k].sid
  IN /\ socks[k].state = "connecting"
     /\ socks' = [socks EXCEPT ![k].state = "open"]
     /\ IF sessions[s] = NoHandle
        THEN /\ unhandled' = unhandled \cup {"connectionOpen"}
             /\ lastOp' = [op |-> "connectionOpen", sid |-> s, result |-> "throws"]
             /\ UNCHANGED <<sessions, db>>
        ELSE /\ sessions' = [sessions EXCEPT ![s].status = "connected"]
             /\ db' = [db EXCEPT ![s] =
                         resetReconnectAttempts(
                           updateSessionStatus(@, "connected", Null, Null))]
             /\ lastOp' = [op |-> "connectionOpen", sid |-> s, result |-> "connected"]
             /\ UNCHANGED unhandled
     /\ UNCHANGED <<pendingCreates, reconnectionAttempts, reconnTimers, supTimers,
                    externalReset, destroyedAt>>
     /\ UNCHANGED <<webhookVars, queueVars, inboundVars, restoreVars, pureVars, storeVars, rateTimers, authFiles>>

\* connection.update with connection === 'open' from socket k
connectionOpen(k) ==
  LET s == socks[k].sid
  IN /\ socks[k].state = "connecting"
     /\ socks' = [socks EXCEPT ![k].state = "open"]
     /\ IF sessions[s] = NoHandle
        THEN \* session is undefined: "session.status = ..." throws
             /\ unhandled' = unhandled \cup {"connectionOpen"}
             /\ lastOp' = [op |-> "connectionOpen", sid |-> s, result |-> "throws"]
             /\ UNCHANGED <<sessions, db>>
        ELSE /\ sessions' = [sessions EXCEPT ![s].status = "connected",
                                             ![s].phoneNumber = Phone]
             /\ db' = [db EXCEPT ![s] =
                         resetReconnectAttempts(
                           updateSessionStatus(@, "connected", Phone, Null))]
             /\ lastOp' = [op |-> "connectionOpen", sid |-> s, result |-> "connected"]
             /\ UNCHANGED unhandled
     /\ UNCHANGED <<pendingCreates, reconnectionAttempts, reconnTimers, supTimers,
                    externalReset, destroyedAt>>
     /\ UNCHANGED <<webhookVars, queueVars, inboundVars, restoreVars, pureVars, storeVars, rateTimers, authFiles>>

\* the close handler with sessions.delete in both branches: a lost connection
\* drops the registry entry too
connectionClose_DropsEntry(k, reason) ==
  LET s == socks[k].sid
  IN /\ socks[k].state \in {"connecting", "open"}
     /\ IF reason # "loggedOut"
        THEN /\ socks' = [socks EXCEPT ![k].state = reason]
             /\ db' = [db EXCEPT ![s] =
                         updateSessionStatus(@, "disconnected", Null, "connection lost")]
             /\ supTimers' = [supTimers EXCEPT ![s] = @ + 1]
             /\ destroyedAt' = [destroyedAt EXCEPT ![s] = Absent]
             /\ sessions' = [sessions EXCEPT ![s] = NoHandle]
        ELSE /\ socks' = [socks EXCEPT ![k].state = reason,
                                       ![k].onDisconnect =
                                          IF socks[k].callbacks THEN @ + 1 ELSE @]
             /\ db' = [db EXCEPT ![s] =
                         updateSessionStatus(@, "disconnected", Null, "Logged out")]
             /\ sessions' = [sessions EXCEPT ![s] = NoHandle]
             /\ UNCHANGED <<supTimers, destroyedAt>>
     /\ lastOp' = [op |-> "connectionClose", sid |-> s, result |-> reason]
     /\ UNCHANGED <<pendingCreates, reconnectionAttempts, reconnTimers, unhandled,
                    externalReset>>
     /\ UNCHANGED <<webhookVars, queueVars, inboundVars, restoreVars, pureVars, storeVars, rateTimers, authFiles>>

\* the close handler with the setTimeout in both branches: a logged-out
\* session is reconnected too
connectionClose_AlwaysReconnects(k, reason) ==
  LET s == socks[k].sid
  IN /\ socks[k].state \in {"connecting", "open"}
     /\ IF reason # "loggedOut"
        THEN /\ socks' = [socks EXCEPT ![k].state = reason]
             /\ db' = [db EXCEPT ![s] =
                         updateSessionStatus(@, "disconnected", Null, "connection lost")]
             /\ supTimers' = [supTimers EXCEPT ![s] = @ + 1]
             /\ destroyedAt' = [destroyedAt EXCEPT ![s] = Absent]
             /\ UNCHANGED sessions
        ELSE /\ socks' = [socks EXCEPT ![k].state = reason,
                                       ![k].onDisconnect =
                                          IF socks[k].callbacks THEN @ + 1 ELSE @]
             /\ db' = [db EXCEPT ![s] =
                         updateSessionStatus(@, "disconnected", Null, "Logged out")]
             /\ sessions' = [sessions EXCEPT ![s] = NoHandle]
             /\ supTimers' = [supTimers EXCEPT ![s] = @ + 1]
             /\ UNCHANGED destroyedAt
     /\ lastOp' = [op |-> "connectionClose", sid |-> s, result |-> reason]
     /\ UNCHANGED <<pendingCreates, reconnectionAttempts, reconnTimers, unhandled,
                    externalReset>>
     /\ UNCHANGED <<webhookVars, queueVars, inboundVars, restoreVars, pureVars, storeVars, rateTimers, authFiles>>

\* connection.update with connection === 'close' from socket k;
\* reason "loggedOut" is DisconnectReason.loggedOut, "lost" any other
connectionClose(k, reason) ==
  LET s == socks[k].sid
  IN /\ socks[k].state \in {"connecting", "open"}
     /\ IF reason # "loggedOut"
        THEN /\ socks' = [socks EXCEPT ![k].state = reason]
             /\ db' = [db EXCEPT ![s] =
                         updateSessionStatus(@, "disconnected", Null, "connection lost")]
             /\ supTimers' = [supTimers EXCEPT ![s] = @ + 1]
             /\ destroyedAt' = [destroyedAt EXCEPT ![s] = Absent]
             /\ UNCHANGED sessions
        ELSE /\ socks' = [socks EXCEPT ![k].state = reason,
                                       ![k].onDisconnect =
                                          IF socks[k].callbacks THEN @ + 1 ELSE @]
             /\ db' = [db EXCEPT ![s] =
                         updateSessionStatus(@, "disconnected", Null, "Logged out")]
             /\ sessions' = [sessions EXCEPT ![s] = NoHandle]
             /\ UNCHANGED <<supTimers, destroyedAt>>
     /\ lastOp' = [op |-> "connectionClose", sid |-> s, result |-> reason]
     /\ UNCHANGED <<pendingCreates, reconnectionAttempts, reconnTimers, unhandled,
                    externalReset>>
     /\ UNCHANGED <<webhookVars, queueVars, inboundVars, restoreVars, pureVars, storeVars, rateTimers, authFiles>>

\* the close handler's setTimeout(() => this.createSession(sessionId, callbacks), 3000)
supervisorTimerFires(s) ==
  /\ supTimers[s] > 0
  /\ supTimers' = [supTimers EXCEPT ![s] = @ - 1]
  /\ IF sessions[s] # NoHandle
     THEN /\ unhandled' = unhandled \cup {"supervisorTimer"}
          /\ lastOp' = otherOp(s)
          /\ UNCHANGED pendingCreates
     ELSE /\ createSessionSuspends(s, "supervisor")
          /\ lastOp' = otherOp(s)
          /\ UNCHANGED unhandled
  /\ UNCHANGED <<sessions, socks, db, reconnectionAttempts, reconnTimers,
                 externalReset, destroyedAt>>
  /\ UNCHANGED <<webhookVars, queueVars, inboundVars, restoreVars, pureVars, storeVars, rateTimers, authFiles>>

\* a disconnect event of session s is handed to the controller:
\* handleDisconnection(sessionId, reason) after a socket of s closed for a
\* reason other than logged-out
disconnectEvent(s) ==
  /\ \E k \in 1 .. Len(socks) : socks[k].sid = s /\ socks[k].state = "lost"
  /\ reconnTimers[s] < MaxTimers
  /\ handleDisconnection(s, reconnTimers)
  /\ trackReset({})
  /\ destroyedAt' = [destroyedAt EXCEPT ![s] = Absent]
  /\ lastOp' = [op |-> "handleDisconnection", sid |-> s, result |-> "event"]
  /\ UNCHANGED <<sessions, socks, pendingCreates, supTimers, unhandled>>
  /\ UNCHANGED <<webhookVars, queueVars, inboundVars, restoreVars, pureVars, storeVars, rateTimers, authFiles>>

\* the setTimeout callback of handleDisconnection: createSession(sessionId);
\* when it throws at once, handleDisconnection(sessionId, {error})
reconnectTimerFires(s) ==
  /\ reconnTimers[s] > 0
  /\ LET fired == [reconnTimers EXCEPT ![s] = @ - 1]
     IN IF sessions[s] # NoHandle
        THEN /\ handleDisconnection(s, fired)
             /\ destroyedAt' = [destroyedAt EXCEPT ![s] = Absent]
             /\ lastOp' = [op |-> "handleDisconnection", sid |-> s,
                           result |-> "recursive"]
             /\ UNCHANGED pendingCreates
        ELSE /\ createSessionSuspends(s, "reconnect")
             /\ reconnTimers' = fired
             /\ lastOp' = otherOp(s)
             /\ UNCHANGED <<db, reconnectionAttempts, destroyedAt>>
  /\ trackReset({})
  /\ UNCHANGED <<sessions, socks, supTimers, unhandled>>
  /\ UNCHANGED <<webhookVars, queueVars, inboundVars, restoreVars, pureVars, storeVars, rateTimers, authFiles>>

\* resetAttempts(sessionId)
resetAttempts(s) ==
  /\ reconnectionAttempts' = [reconnectionAttempts EXCEPT ![s] = Absent]
  /\ externalReset' = [externalReset EXCEPT ![s] = TRUE]
  /\ lastOp' = otherOp(s)
  /\ UNCHANGED <<sessions, socks, pendingCreates, db, reconnTimers, supTimers,
                 unhandled, destroyedAt>>
  /\ UNCHANGED <<webhookVars, queueVars, inboundVars, restoreVars, pureVars, storeVars, rateTimers, authFiles>>

\* destroySession without the try/catch around logout: the error of a
\* client that is already closed ends the call
destroySession_LogoutFatal(s) ==
  /\ IF sessions[s] = NoHandle
     THEN /\ lastOp' = [op |-> "destroySession", sid |-> s, result |-> "not found"]
          /\ UNCHANGED <<sessions, socks, destroyedAt, authFiles>>
     ELSE IF socks[sessions[s].sock].state \notin {"connecting", "open"}
          THEN /\ lastOp' = [op |-> "destroySession", sid |-> s, result |-> "logout failed"]
               /\ UNCHANGED <<sessions, socks, destroyedAt, authFiles>>
          ELSE /\ socks' = [socks EXCEPT ![sessions[s].sock].state = "loggedOut"]
               /\ sessions' = [sessions EXCEPT ![s] = NoHandle]
               /\ authFiles' = [authFiles EXCEPT ![s] = FALSE]
               /\ destroyedAt' = [destroyedAt EXCEPT ![s] = Len(qitems)]
               /\ lastOp' = [op |-> "destroySession", sid |-> s, result |-> "destroyed"]
  /\ UNCHANGED <<pendingCreates, db, reconnectionAttempts, reconnTimers, supTimers,
                 unhandled, externalReset>>
  /\ UNCHANGED <<webhookVars, queueVars, inboundVars, restoreVars, pureVars, storeVars, rateTimers>>

\* destroySession(sessionId): not found for an id that is not registered;
\* otherwise logout, which throws for a client that is already closed and
\* whose error is swallowed, sessions.delete and fs.rmSync of the auth files
destroySession(s) ==
  /\ IF sessions[s] = NoHandle
     THEN /\ lastOp' = [op |-> "destroySession", sid |-> s, result |-> "not found"]
          /\ UNCHANGED <<sessions, socks, destroyedAt, authFiles>>
     ELSE /\ socks' = [socks EXCEPT ![sessions[s].sock].state =
                         IF @ \in {"connecting", "open"} THEN "loggedOut" ELSE @]
          /\ sessions' = [sessions EXCEPT ![s] = NoHandle]
          /\ authFiles' = [authFiles EXCEPT ![s] = FALSE]
          /\ destroyedAt' = [destroyedAt EXCEPT ![s] = Len(qitems)]
          /\ lastOp' = [op |-> "destroySession", sid |-> s, result |-> "destroyed"]
  /\ UNCHANGED <<pendingCreates, db, reconnectionAttempts, reconnTimers, supTimers,
                 unhandled, externalReset>>
  /\ UNCHANGED <<webhookVars, queueVars, inboundVars, restoreVars, pureVars, storeVars, rateTimers>>

\* handleRateLimit(sessionId): status connecting with the rate-limit message
\* and a 15 minute setTimeout
handleRateLimit(s) ==
  /\ rateTimers[s] < MaxTimers
  /\ db' = [db EXCEPT ![s] =
              updateSessionStatus(@, "connecting", Null,
                                  "Rate limited by WhatsApp. Waiting 15 minutes...")]
  /\ rateTimers' = [rateTimers EXCEPT ![s] = @ + 1]
  /\ trackReset({})
  /\ lastOp' = [op |-> "handleRateLimit", sid |-> s, result |-> Null]
  /\ UNCHANGED <<sessions, socks, pendingCreates, reconnectionAttempts, reconnTimers,
                 supTimers, unhandled, destroyedAt, authFiles>>
  /\ UNCHANGED <<webhookVars, queueVars, inboundVars, restoreVars, pureVars, storeVars>>

\* the setTimeout callback of handleRateLimit, after 15 minutes:
\* handleDisconnection(sessionId, {error: 'Rate limit recovery'})
rateLimitTimerFires(s) ==
  /\ rateTimers[s] > 0
  /\ reconnTimers[s] < MaxTimers
  /\ rateTimers' = [rateTimers EXCEPT ![s] = @ - 1]
  /\ handleDisconnection(s, reconnTimers)
  /\ trackReset({})
  /\ destroyedAt' = [destroyedAt EXCEPT ![s] = Absent]
  /\ lastOp' = [op |-> "rateLimitTimerFires", sid |-> s, result |-> Null]
  /\ UNCHANGED <<sessions, socks, pendingCreates, supTimers, unhandled, authFiles>>
  /\ UNCHANGED <<webhookVars, queueVars, inboundVars, restoreVars, pureVars, storeVars>>

\* restoreAllSessions() at server start: fetches the rows of getActiveSessions
\* and enters its loop, which awaits createSession row after row
restoreAllSessions ==
  /\ lastOp.op = "init"
  /\ restorePos = 0
  /\ \E list \in Perms(getActiveSessions) :
       LET r == restoreLoop(list, 1, db, sessions)
       IN /\ activeSessions' = list
          /\ restorePos' = r.pos
          /\ db' = r.db
          /\ pendingCreates' = IF r.awaits = Null THEN pendingCreates
                               ELSE [pendingCreates EXCEPT ![r.awaits]["restore"] = @ + 1]
  /\ lastOp' = [op |-> "restoreAllSessions", sid |-> Null, result |-> Null]
  /\ UNCHANGED <<sessions, socks, reconnectionAttempts, reconnTimers,
                 supTimers, unhandled, externalReset, destroyedAt>>
  /\ UNCHANGED <<webhookVars, queueVars, inboundVars, pureVars, storeVars, rateTimers, authFiles>>

\* cleanup(): every session whose counter is at least maxAttempts loses its
\* counter and gets the status error
cleanup ==
  LET failedSessions == {s \in SessionIds :
                           /\ reconnectionAttempts[s] # Absent
                           /\ reconnectionAttempts[s] >= maxAttempts}
  IN /\ failedSessions # {}
     /\ reconnectionAttempts' = [s \in SessionIds |->
                                   IF s \in failedSessions THEN Absent
                                   ELSE reconnectionAttempts[s]]
     /\ db' = [s \in SessionIds |->
                 IF s \in failedSessions
                 THEN updateSessionStatus(db[s], "error", Null, "Failed to reconnect")
                 ELSE db[s]]
     /\ trackReset({})
     /\ lastOp' = [op |-> "cleanup", sid |-> Null, result |-> Null]
     /\ UNCHANGED <<sessions, socks, pendingCreates, reconnTimers, supTimers,
                    unhandled, destroyedAt>>
     /\ UNCHANGED <<webhookVars, queueVars, inboundVars, restoreVars, pureVars, storeVars, rateTimers, authFiles>>

\* a SessionManager method that uses the client: it either throws
\* "Session ... not connected" or hands the call to session.sock
clientCall(op, s, notConnected) ==
  /\ lastOp' = [op |-> op, sid |-> s,
                result |-> IF notConnected THEN "not connected" ELSE "client"]
  /\ UNCHANGED <<sessions, socks, pendingCreates, db, reconnectionAttempts,
                 reconnTimers, supTimers, unhandled, externalReset, destroyedAt>>
  /\ UNCHANGED <<webhookVars, queueVars, inboundVars, restoreVars, pureVars, storeVars, rateTimers, authFiles>>

\* sendMessage with the test "if (!session)" only: a handle that is not
\* connected is passed to the client
sendMessage_HandleOnly(s) ==
  clientCall("sendMessage", s, sessions[s] = NoHandle)

\* sendMessage(sessionId, jid, content)
sendMessage(s) ==
  clientCall("sendMessage", s,
             sessions[s] = NoHandle \/ sessions[s].status # "connected")

createGroup(s) ==
  clientCall("createGroup", s,
             sessions[s] = NoHandle \/ sessions[s].status # "connected")

getGroups(s) ==
  clientCall("getGroups", s,
             sessions[s] = NoHandle \/ sessions[s].status # "connected")

addGroupParticipants(s) ==
  clientCall("addGroupParticipants", s,
             sessions[s] = NoHandle \/ sessions[s].status # "connected")

promoteToAdmin(s) ==
  clientCall("promoteToAdmin", s,
             sessions[s] = NoHandle \/ sessions[s].status # "connected")

getGroupMetadata(s) ==
  clientCall("getGroupMetadata", s,
             sessions[s] = NoHandle \/ sessions[s].status # "connected")

removeGroupParticipants(s) ==
  clientCall("removeGroupParticipants", s,
             sessions[s] = NoHandle \/ sessions[s].status # "connected")

leaveGroup(s) ==
  clientCall("leaveGroup", s,
             sessions[s] = NoHandle \/ sessions[s].status # "connected")

\* the session life cycle: create, client events, destroy
NextLifeCycle ==
  \/ \E s \in LiveIds : createSession(s)
  \/ \E s \in LiveIds, o \in Origins : createSessionResumes(s, o)
  \/ \E s \in LiveIds, o \in Origins : createSessionThrows(s, o)
  \/ \E k \in 1 .. Len(socks) : connectionOpen(k)
  \/ \E k \in 1 .. Len(socks), r \in {"lost", "loggedOut"} : connectionClose(k, r)
  \/ \E s \in LiveIds : supervisorTimerFires(s)
  \/ \E s \in LiveIds : destroySession(s)
  \/ restoreAllSessions

\* the reconnection controller
NextReconnection ==
  \/ \E s \in LiveIds : disconnectEvent(s)
  \/ \E s \in LiveIds : reconnectTimerFires(s)
  \/ \E s \in LiveIds : resetAttempts(s)
  \/ cleanup

\* the SessionManager methods that use the client
NextClient ==
  \/ \E s \in LiveIds : sendMessage(s)
  \/ \E s \in LiveIds : createGroup(s)
  \/ \E s \in LiveIds : getGroups(s)
  \/ \E s \in LiveIds : addGroupParticipants(s)
  \/ \E s \in LiveIds : promoteToAdmin(s)
  \/ \E s \in LiveIds : getGroupMetadata(s)
  \/ \E s \in LiveIds : removeGroupParticipants(s)
  \/ \E s \in LiveIds : leaveGroup(s)

NextSession ==
  \/ NextLifeCycle
  \/ NextReconnection

\* a connected session whose client closes, with the timers of the close
\* handler and of the controller, while the WhatsApp client accepts every
\* new connection: a create that was started resumes, and a client that
\* connects is not closed before it is open
NextReconnect ==
  \/ \E k \in 1 .. Len(socks), r \in {"lost", "loggedOut"} :
       socks[k].state = "open" /\ connectionClose(k, r)
  \/ \E s \in LiveIds : supervisorTimerFires(s)
  \/ \E s \in LiveIds : disconnectEvent(s)
  \/ \E s \in LiveIds : reconnectTimerFires(s)
  \/ \E s \in LiveIds, o \in {"supervisor", "reconnect"} :
       createSessionResumes(s, o)
  \/ \E k \in 1 .. Len(socks) : connectionOpen(k)
  \/ \E s \in LiveIds : destroySession(s)

\* the rate-limit variant of the reconnection procedure
NextRateLimit ==
  \/ \E s \in LiveIds : handleRateLimit(s)
  \/ \E s \in LiveIds : rateLimitTimerFires(s)
  \/ \E s \in LiveIds : reconnectTimerFires(s)
  \/ \E s \in LiveIds : createSessionResumes(s, "reconnect")
  \/ \E s \in LiveIds : createSessionThrows(s, "reconnect")

\* server start after a crash: restoreAllSessions, the createSession calls it
\* awaits, and createSession calls of the API that arrive meanwhile
NextRestore ==
  \/ restoreAllSessions
  \/ \E s \in SessionIds : createSessionResumes(s, "restore")
  \/ \E s \in SessionIds : createSessionThrows(s, "restore")
  \/ \E s \in LiveIds : createSession(s)
  \/ \E s \in LiveIds : createSessionResumes(s, "api")

(***************************************************************************)
(* MessageQueue                                                            *)
(***************************************************************************)
\* stats.get(sessionId) of a session that has sent nothing yet
NoStats == [sent |-> 0, lastReset |-> Absent]

InitQueue ==
  /\ queues = [s \in SessionIds |-> 0]
  /\ arrays = <<>>
  /\ processing = [s \in SessionIds |-> "absent"]
  /\ workers = <<>>
  /\ qitems = <<>>
  /\ stats = [s \in SessionIds |-> NoStats]
  /\ now = 0
  /\ lateTicks = 0
  /\ sendTimes = <<>>

\* the queue item made by enqueue; tries, sent and dropped are the history
\* of the item: send attempts made, successful sends, removal after the
\* last failed attempt
queueItem(type) ==
  [type |-> type, attempts |-> 0, tries |-> 0, sent |-> 0, dropped |-> FALSE]

\* a sequence without its i-th element
RemoveAt(seq, i) ==
  [j \in 1 .. (Len(seq) - 1) |-> IF j < i THEN seq[j] ELSE seq[j + 1]]

\* the ids of the items held by an array of the queue
itemsOf(queue) ==
  {queue[k] : k \in 1 .. Len(queue)}

\* Array.prototype.shift: drops the first element, if any
shift(queue) ==
  IF queue = <<>> THEN queue ELSE Tail(queue)

\* shouldThrottle(sessionId) at time t: [throttle, stats after the call]
shouldThrottle(st, t) ==
  IF st = NoStats
  THEN [throttle |-> FALSE, stats |-> st]
  ELSE IF st.lastReset < t - refillInterval
       THEN [throttle |-> FALSE, stats |-> [sent |-> 0, lastReset |-> t]]
       ELSE [throttle |-> st.sent >= messagesPerMinute, stats |-> st]

\* updateStats(sessionId) at time t
updateStats(st, t) ==
  IF st = NoStats
  THEN [sent |-> 1, lastReset |-> t]
  ELSE [st EXCEPT !.sent = @ + 1]

\* The head of the while loop of processQueue, run by activation i of ws on
\* array a: leave when the array is empty (processing := false), otherwise
\* peek queue[0], ask shouldThrottle, and either sleep 60 s or call
\* sendMessage, which for a text reaches the client only when
\* SessionManager.sendMessage finds the session connected (ok).  No step of
\* another task can come between these.
loopHead(ws, i, s, a, arrs, proc, st, items) ==
  /\ arrays' = arrs
  /\ IF arrs[a] = <<>>
     THEN /\ workers' = RemoveAt(ws, i)
          /\ processing' = [proc EXCEPT ![s] = "false"]
          /\ stats' = st
          /\ qitems' = items
     ELSE LET m == Head(arrs[a])
              r == shouldThrottle(st[s], now)
          IN /\ processing' = proc
             /\ stats' = [st EXCEPT ![s] = r.stats]
             /\ IF r.throttle
                THEN /\ workers' = [ws EXCEPT ![i] =
                                      [sid |-> s, arr |-> a, pc |-> "throttled",
                                       msg |-> m, wake |-> now + refillInterval,
                                       at |-> now, ok |-> FALSE]]
                     /\ qitems' = items
                ELSE /\ workers' = [ws EXCEPT ![i] =
                                      [sid |-> s, arr |-> a, pc |-> "sending",
                                       msg |-> m, wake |-> now, at |-> now,
                                       ok |-> /\ items[m].type = "text"
                                              /\ sessions[s].status = "connected"]]
                     /\ qitems' = [items EXCEPT ![m].tries = @ + 1]

\* enqueue(sessionId, message) once for each type of types (sendBulk calls it
\* in a loop): make the array when the Map has none, push, and start
\* processQueue unless processing.get(sessionId) is true
enqueueAll(s, types) ==
  LET fresh == queues[s] = 0
      a == IF fresh THEN Len(arrays) + 1 ELSE queues[s]
      ids == [j \in 1 .. Len(types) |-> Len(qitems) + j]
      arrs == IF fresh THEN Append(arrays, ids)
              ELSE [arrays EXCEPT ![a] = @ \o ids]
      items == qitems \o [j \in 1 .. Len(types) |-> queueItem(types[j])]
  IN /\ fresh => Len(arrays) < MaxArrays
     /\ queues' = [queues EXCEPT ![s] = a]
     /\ IF processing[s] # "true"
        THEN /\ Len(workers) < MaxWorkers
             /\ loopHead(Append(workers, [sid |-> s, arr |-> a, pc |-> "start",
                                          msg |-> 0, wake |-> now, at |-> now,
                                          ok |-> FALSE]),
                         Len(workers) + 1, s, a, arrs,
                         [processing EXCEPT ![s] = "true"], stats, items)
        ELSE /\ arrays' = arrs
             /\ qitems' = items
             /\ UNCHANGED <<workers, processing, stats>>

\* enqueue(sessionId, {jid, content, type})
enqueue(s, type) ==
  /\ Len(qitems) < MaxMsgs
  /\ enqueueAll(s, <<type>>)
  /\ UNCHANGED <<now, lateTicks, sendTimes>>
  /\ UNCHANGED <<webhookVars, sessionVars, inboundVars, pureVars, storeVars>>

\* sendBulk(sessionId, recipients, content) with n recipients
sendBulk(s, n, limit) ==
  /\ Len(qitems) + n <= limit
  /\ enqueueAll(s, [j \in 1 .. n |-> "text"])
  /\ UNCHANGED <<now, lateTicks, sendTimes>>
  /\ UNCHANGED <<webhookVars, sessionVars, inboundVars, pureVars, storeVars>>

\* clearQueue(sessionId)
clearQueue(s) ==
  /\ queues[s] # 0
  /\ queues' = [queues EXCEPT ![s] = 0]
  /\ processing' = [processing EXCEPT ![s] = "absent"]
  /\ UNCHANGED <<arrays, workers, qitems, stats, now, lateTicks, sendTimes>>
  /\ UNCHANGED <<webhookVars, sessionVars, inboundVars, pureVars, storeVars>>

\* "await this.sendMessage(sessionId, message)" of activation i resolves:
\* queue.shift(), updateStats, then the 3 s delay
sendResolves(i) ==
  LET w == workers[i]
  IN /\ w.pc = "sending"
     /\ w.ok
     /\ arrays' = [arrays EXCEPT ![w.arr] = shift(@)]
     /\ stats' = [stats EXCEPT ![w.sid] = updateStats(@, now)]
     /\ qitems' = [qitems EXCEPT ![w.msg].sent = @ + 1]
     /\ sendTimes' = Append(sendTimes, w.at)
     /\ workers' = [workers EXCEPT ![i].pc = "sent",
                                   ![i].wake = now + delayBetweenMessages]
     /\ UNCHANGED <<queues, processing, now, lateTicks>>
     /\ UNCHANGED <<webhookVars, sessionVars, inboundVars, pureVars, storeVars>>

\* the catch branch with a return after the removal of a message that
\* failed for the last time: the worker stops whatever the queue holds
sendRejects_StopsOnDrop(i) ==
  LET w == workers[i]
      attempts == qitems[w.msg].attempts + 1
      items == [qitems EXCEPT ![w.msg].attempts = attempts]
  IN /\ w.pc = "sending"
     /\ IF attempts >= maxSendAttempts
        THEN /\ arrays' = [arrays EXCEPT ![w.arr] = shift(@)]
             /\ qitems' = [items EXCEPT ![w.msg].dropped = TRUE]
             /\ workers' = RemoveAt(workers, i)
             /\ processing' = [processing EXCEPT ![w.sid] = "false"]
             /\ UNCHANGED stats
        ELSE /\ arrays' = [arrays EXCEPT ![w.arr] = Append(shift(@), w.msg)]
             /\ qitems' = items
             /\ workers' = [workers EXCEPT ![i].pc = "retry",
                                           ![i].wake = now + retryDelay]
             /\ UNCHANGED <<processing, stats>>
     /\ UNCHANGED <<queues, now, lateTicks, sendTimes>>
     /\ UNCHANGED <<webhookVars, sessionVars, inboundVars, pureVars, storeVars>>

\* "await this.sendMessage(sessionId, message)" of activation i rejects (the
\* session is not connected, the client fails, or the type is not text):
\* message.attempts++, then drop the head, or move it to the tail and
\* sleep 5 s
sendRejects(i) ==
  LET w == workers[i]
      attempts == qitems[w.msg].attempts + 1
      items == [qitems EXCEPT ![w.msg].attempts = attempts]
  IN /\ w.pc = "sending"
     /\ IF attempts >= maxSendAttempts
        THEN loopHead(workers, i, w.sid, w.arr,
                      [arrays EXCEPT ![w.arr] = shift(@)],
                      processing, stats,
                      [items EXCEPT ![w.msg].dropped = TRUE])
        ELSE /\ arrays' = [arrays EXCEPT ![w.arr] = Append(shift(@), w.msg)]
             /\ qitems' = items
             /\ workers' = [workers EXCEPT ![i].pc = "retry",
                                           ![i].wake = now + retryDelay]
             /\ UNCHANGED <<processing, stats>>
     /\ UNCHANGED <<queues, now, lateTicks, sendTimes>>
     /\ UNCHANGED <<webhookVars, sessionVars, inboundVars, pureVars, storeVars>>

\* the setTimeout of "await this.delay(ms)" of activation i fires
delayResolves(i) ==
  LET w == workers[i]
  IN /\ w.pc \in {"throttled", "sent", "retry"}
     /\ now >= w.wake
     /\ loopHead(workers, i, w.sid, w.arr, arrays, processing, stats, qitems)
     /\ UNCHANGED <<queues, now, lateTicks, sendTimes>>
     /\ UNCHANGED <<webhookVars, sessionVars, inboundVars, pureVars, storeVars>>

\* some activation sleeps in a delay that has not run out
someoneSleeps ==
  \E i \in 1 .. Len(workers) :
    workers[i].pc \in {"throttled", "sent", "retry"} /\ workers[i].wake > now

\* one second passes; a second in which no delay is running is latency of a
\* send or of a timer, MaxLate of which are followed
tick(horizon) ==
  /\ now < horizon
  /\ now' = now + 1
  /\ IF someoneSleeps
     THEN UNCHANGED lateTicks
     ELSE /\ lateTicks < MaxLate
          /\ lateTicks' = lateTicks + 1
  /\ UNCHANGED <<queues, arrays, processing, workers, qitems, stats, sendTimes>>
  /\ UNCHANGED <<webhookVars, sessionVars, inboundVars, pureVars, storeVars>>

\* the queue while the session is destroyed: enqueue, destroySession and the
\* worker's steps
NextOutbound ==
  \/ \E s \in LiveIds : enqueue(s, "text")
  \/ \E s \in LiveIds : destroySession(s)
  \/ \E i \in 1 .. Len(workers) : sendResolves(i)
  \/ \E i \in 1 .. Len(workers) : sendRejects(i)
  \/ \E i \in 1 .. Len(workers) : delayResolves(i)
  \/ tick(MaxTime)

\* the queue under enqueue, sendBulk, clearQueue and the worker's steps
NextQueue ==
  \/ \E s \in LiveIds, type \in {"text", "image"} : enqueue(s, type)
  \/ \E s \in LiveIds : sendBulk(s, 2, MaxMsgs)
  \/ \E s \in LiveIds : clearQueue(s)
  \/ \E i \in 1 .. Len(workers) : sendResolves(i)
  \/ \E i \in 1 .. Len(workers) : sendRejects(i)
  \/ \E i \in 1 .. Len(workers) : delayResolves(i)
  \/ tick(MaxTime)

\* the time that the delays of MaxMsgs messages can take together: two
\* retry delays and the delay after the send for each
QueueHorizon ==
  MaxMsgs * ((maxSendAttempts - 1) * retryDelay + delayBetweenMessages)

\* time passes until the next setTimeout of a delay is due
timePasses(horizon) ==
  /\ someoneSleeps
  /\ LET due == {workers[i].wake : i \in {j \in 1 .. Len(workers) :
                    /\ workers[j].pc \in {"throttled", "sent", "retry"}
                    /\ workers[j].wake > now}}
         first == CHOOSE u \in due : \A v \in due : u <= v
     IN /\ first <= horizon
        /\ now' = first
  /\ UNCHANGED <<queues, arrays, processing, workers, qitems, stats, lateTicks,
                 sendTimes>>
  /\ UNCHANGED <<webhookVars, sessionVars, inboundVars, pureVars, storeVars>>

\* the queue under enqueue and the worker's steps alone
NextQueueLive ==
  \/ \E s \in LiveIds, type \in {"text", "image"} : enqueue(s, type)
  \/ \E i \in 1 .. Len(workers) : sendResolves(i)
  \/ \E i \in 1 .. Len(workers) : sendRejects(i)
  \/ \E i \in 1 .. Len(workers) : delayResolves(i)
  \/ timePasses(QueueHorizon)

\* one bulk send of messagesPerMinute + 1 text messages that the client
\* accepts, each after some latency
NextThrottle ==
  \/ \E s \in LiveIds : sendBulk(s, messagesPerMinute + 1, messagesPerMinute + 1)
  \/ \E i \in 1 .. Len(workers) : sendResolves(i)
  \/ \E i \in 1 .. Len(workers) : delayResolves(i)
  \/ tick(ThrottleHorizon)

(***************************************************************************)
(* SessionManager: the messages.upsert listener                            *)
(***************************************************************************)
InitInbound ==
  /\ delivered = 0
  /\ upserts = <<>>
  /\ published = <<>>

\* the client emits messages.upsert with n messages: for type notify the
\* listener starts its loop and suspends in the first loadAuthState, any
\* other type is ignored
messagesUpsert(n, type) ==
  /\ delivered + n <= MaxInbound
  /\ delivered' = delivered + n
  /\ upserts' = IF type = "notify"
                THEN Append(upserts, [j \in 1 .. n |-> delivered + j])
                ELSE upserts
  /\ UNCHANGED published
  /\ UNCHANGED <<webhookVars, sessionVars, queueVars, pureVars, storeVars>>

\* loadAuthState of activation h resolves: callbacks.onMessage(msg), then the
\* next iteration suspends again or the listener returns
loadAuthStateResolves(h) ==
  /\ published' = Append(published, Head(upserts[h]))
  /\ upserts' = IF Len(upserts[h]) > 1
                THEN [upserts EXCEPT ![h] = Tail(@)]
                ELSE RemoveAt(upserts, h)
  /\ UNCHANGED delivered
  /\ UNCHANGED <<webhookVars, sessionVars, queueVars, pureVars, storeVars>>

NextInbound ==
  \/ \E n \in 1 .. MaxBatch, type \in {"notify", "append"} : messagesUpsert(n, type)
  \/ \E h \in 1 .. Len(upserts) : loadAuthStateResolves(h)

(***************************************************************************)
(* Functions without state: GHLWebhookService.formatPhoneNumber and the    *)
(* back-off delay of ReconnectionManager.handleDisconnection               *)
(***************************************************************************)
\* a phone number is a string of these pieces: a digit, the characters that
\* formatPhoneNumber looks at, and the two suffixes it strips
Tokens == {"1", "+", " ", "-", "@s.whatsapp.net", "@c.us"}

\* the strings of at most n tokens
Strings(n) == UNION {[1 .. k -> Tokens] : k \in 0 .. n}

\* String.prototype.replace(pattern, '') with a string pattern: removes the
\* first occurrence only
replace(str, pattern) ==
  LET found == {i \in 1 .. Len(str) : str[i] = pattern}
  IN IF found = {} THEN str
     ELSE RemoveAt(str, CHOOSE i \in found : \A j \in found : i <= j)

\* String.prototype.replace(/[\s-]/g, ''): removes every space and hyphen
replaceAllSpaceHyphen(str) ==
  LET keep(c) == c \notin {" ", "-"}
  IN SelectSeq(str, keep)

\* formatPhoneNumber(phoneNumber)
formatPhoneNumber(str) ==
  IF str = <<>> THEN <<>>
  ELSE LET cleaned == replaceAllSpaceHyphen(
                        replace(replace(str, "@s.whatsapp.net"), "@c.us"))
       IN IF cleaned # <<>> /\ cleaned[1] = "+" THEN cleaned
          ELSE <<"+">> \o cleaned

\* Math.pow(2, n)
pow2(n) == 2 ^ n

\* the delay without Math.min
backoffDelay_NoCap(n) ==
  baseDelay * pow2(n)

\* Math.min(this.baseDelay * Math.pow(2, attempts), this.maxDelay)
backoffDelay(n) ==
  IF baseDelay * pow2(n) < maxDelay THEN baseDelay * pow2(n) ELSE maxDelay

InitPureIdle ==
  /\ phoneArg = <<>>
  /\ formatted = <<>>
  /\ attemptsArg = 0
  /\ delayOut = Absent

InitPure ==
  /\ phoneArg \in Strings(MaxPhoneLen)
  /\ formatted = <<>>
  /\ attemptsArg \in 0 .. MaxExponent
  /\ delayOut = Absent

\* one more call of formatPhoneNumber, on the result of the call before it
formatPhoneNumberCall ==
  /\ Len(formatted) < MaxFormats
  /\ formatted' = Append(formatted,
                         formatPhoneNumber(IF formatted = <<>> THEN phoneArg
                                           ELSE formatted[Len(formatted)]))
  /\ UNCHANGED <<phoneArg, attemptsArg, delayOut>>
  /\ UNCHANGED <<webhookVars, sessionVars, queueVars, inboundVars, storeVars>>

\* handleDisconnection computes its delay from the attempt counter
computeDelay ==
  /\ delayOut = Absent
  /\ delayOut' = backoffDelay(attemptsArg)
  /\ UNCHANGED <<phoneArg, formatted, attemptsArg>>
  /\ UNCHANGED <<webhookVars, sessionVars, queueVars, inboundVars, storeVars>>

NextPure ==
  \/ formatPhoneNumberCall
  \/ computeDelay

(***************************************************************************)
(* SessionPersistence.saveMessage, table messages and the trigger          *)
(* on_message_created / track_message_usage                                *)
(***************************************************************************)
\* message ids given by the WhatsApp client (one id, stored for either session)
WaIds == {"w1"}

Months == 1 .. MaxMonths

\* the columns of a row of table messages that the model follows; period is
\* the month of the column timestamp, which defaults to NOW()
MessageRows ==
  [message_id : WaIds, session_id : SessionIds, organization_id : Orgs,
   direction : Directions, period : Months]

\* no row of usage_tracking for an organisation and a month
NoUsage == [messages_sent |-> Absent, messages_received |-> Absent]

\* organizations.max_accounts and max_messages_per_month of a row inserted
\* without them (DEFAULT 1, DEFAULT 1000)
DefaultPlan == [max_accounts |-> 1, max_messages_per_month |-> 1000]

InitMessages ==
  /\ stored = [r \in MessageRows |-> 0]
  /\ usage_tracking = [o \in Orgs |-> [p \in Months |-> NoUsage]]
  /\ month = 1
  /\ saveResult = Null

InitStore ==
  /\ InitMessages
  /\ organizations = [o \in Orgs |-> DefaultPlan]
  /\ organization_id = [s \in SessionIds |-> "o1"]
  /\ guards = {}
  /\ guardResult = [op |-> "none"]

\* number of rows of table messages among the kinds in S
countRows(S) ==
  Cardinality({c \in S \X (1 .. MaxSaved) : c[2] <= stored[c[1]]})

\* the trigger with ON CONFLICT DO NOTHING: a row that exists is left alone
track_message_usage_InsertOnly(usage, new) ==
  LET sent == IF new.direction = "outbound" THEN 1 ELSE 0
      received == IF new.direction = "inbound" THEN 1 ELSE 0
      old == usage[new.organization_id][new.period]
  IN [usage EXCEPT ![new.organization_id][new.period] =
        IF old = NoUsage
        THEN [messages_sent |-> sent, messages_received |-> received]
        ELSE old]

\* track_message_usage(), AFTER INSERT ON messages FOR EACH ROW: insert the
\* row of (organization_id, first day of the month of NEW.timestamp) with the
\* counts 1/0 or 0/1, ON CONFLICT add them to the row that exists
track_message_usage(usage, new) ==
  LET sent == IF new.direction = "outbound" THEN 1 ELSE 0
      received == IF new.direction = "inbound" THEN 1 ELSE 0
      old == usage[new.organization_id][new.period]
  IN [usage EXCEPT ![new.organization_id][new.period] =
        IF old = NoUsage
        THEN [messages_sent |-> sent, messages_received |-> received]
        ELSE [messages_sent |-> old.messages_sent + sent,
              messages_received |-> old.messages_received + received]]

\* saveMessage(messageData): INSERT INTO messages, with the trigger in the
\* same statement; table messages has no constraint that the insert can
\* violate for the columns followed here
saveMessage(sessionId, organizationId, messageId, direction) ==
  LET new == [message_id |-> messageId, session_id |-> sessionId,
              organization_id |-> organizationId, direction |-> direction,
              period |-> month]
  IN /\ countRows(MessageRows) < MaxSaved
     /\ stored' = [stored EXCEPT ![new] = @ + 1]
     /\ usage_tracking' = track_message_usage(usage_tracking, new)
     /\ saveResult' = "saved"
     /\ UNCHANGED <<month, limitVars>>
     /\ UNCHANGED <<webhookVars, sessionVars, queueVars, inboundVars, pureVars>>

\* the calendar month ends
monthPasses ==
  /\ month < MaxMonths
  /\ month' = month + 1
  /\ UNCHANGED <<stored, usage_tracking, saveResult, limitVars>>
  /\ UNCHANGED <<webhookVars, sessionVars, queueVars, inboundVars, pureVars>>

NextStore ==
  \/ \E s \in SessionIds, o \in Orgs, id \in WaIds, d \in Directions :
       saveMessage(s, o, id, d)
  \/ monthPasses

(***************************************************************************)
(* checkSubscriptionLimits (middleware) and                                *)
(* SessionPersistence.checkAccountLimit                                    *)
(***************************************************************************)
\* the values of max_accounts and max_messages_per_month followed: -1 is
\* the enterprise tier of PRICING_TIERS
PlanLimits == {-1, 1}

\* an organisation id that table organizations does not hold
NoOrg == "o0"

\* SELECT COUNT(*) FROM whatsapp_sessions
\* WHERE organization_id = $1 AND status != 'error'
sessionCount(o) ==
  Cardinality({s \in SessionIds :
                 organization_id[s] = o /\ db[s].status # "error"})

\* (usage[0].messages_sent || 0) + (usage[0].messages_received || 0)
totalMessages(row) == row.messages_sent + row.messages_received

\* the account check with > in the place of >=
checkSubscriptionLimits_Strict(o) ==
  LET count == sessionCount(o)
      limit == organizations[o].max_accounts
  IN /\ IF count > limit
        THEN /\ guardResult' = [op |-> "checkSubscriptionLimits", org |-> o,
                                status |-> 403, error |-> "Account limit reached",
                                current |-> count, limit |-> limit]
             /\ UNCHANGED guards
        ELSE /\ Cardinality(guards \cup {<<o, month>>}) <= MaxGuards
             /\ guards' = guards \cup {<<o, month>>}
             /\ guardResult' = [op |-> "checkSubscriptionLimits", org |-> o,
                                status |-> 0, error |-> Null,
                                current |-> count, limit |-> limit]
     /\ UNCHANGED <<stored, usage_tracking, month, saveResult,
                    organizations, organization_id>>
     /\ UNCHANGED <<webhookVars, sessionVars, queueVars, inboundVars, pureVars>>

\* checkSubscriptionLimits(req, res, next) up to its second query: the count
\* of the organisation's sessions is read, and either the request is answered
\* with 403 or the usage row of the current month is asked for (status 0: no
\* answer yet)
checkSubscriptionLimits(o) ==
  LET count == sessionCount(o)
      limit == organizations[o].max_accounts
  IN /\ IF count >= limit
        THEN /\ guardResult' = [op |-> "checkSubscriptionLimits", org |-> o,
                                status |-> 403, error |-> "Account limit reached",
                                current |-> count, limit |-> limit]
             /\ UNCHANGED guards
        ELSE /\ Cardinality(guards \cup {<<o, month>>}) <= MaxGuards
             /\ guards' = guards \cup {<<o, month>>}
             /\ guardResult' = [op |-> "checkSubscriptionLimits", org |-> o,
                                status |-> 0, error |-> Null,
                                current |-> count, limit |-> limit]
     /\ UNCHANGED <<stored, usage_tracking, month, saveResult,
                    organizations, organization_id>>
     /\ UNCHANGED <<webhookVars, sessionVars, queueVars, inboundVars, pureVars>>

\* the usage query of checkSubscriptionLimits resolves: 429 when the row of
\* currentMonth exists and its total reaches max_messages_per_month, next()
\* (status 200 stands for it) otherwise
usageQueryResolves(o, currentMonth) ==
  LET usage == usage_tracking[o][currentMonth]
      limit == organizations[o].max_messages_per_month
  IN /\ <<o, currentMonth>> \in guards
     /\ guards' = guards \ {<<o, currentMonth>>}
     /\ guardResult' =
          IF usage # NoUsage /\ totalMessages(usage) >= limit
          THEN [op |-> "usageQueryResolves", org |-> o, status |-> 429,
                error |-> "Message limit reached",
                current |-> totalMessages(usage), limit |-> limit]
          ELSE [op |-> "usageQueryResolves", org |-> o, status |-> 200,
                error |-> Null, current |-> Absent, limit |-> Absent]
     /\ UNCHANGED <<stored, usage_tracking, month, saveResult,
                    organizations, organization_id>>
     /\ UNCHANGED <<webhookVars, sessionVars, queueVars, inboundVars, pureVars>>

\* checkAccountLimit(organizationId): { count, limit, canAdd }, or the throw
\* of 'Organization not found' (status 500 stands for it)
checkAccountLimit(o) ==
  /\ guardResult' =
       IF o \notin Orgs
       THEN [op |-> "checkAccountLimit", org |-> o, status |-> 500,
             error |-> "Organization not found"]
       ELSE [op |-> "checkAccountLimit", org |-> o, status |-> 200,
             count |-> sessionCount(o),
             limit |-> organizations[o].max_accounts,
             canAdd |-> sessionCount(o) < organizations[o].max_accounts]
  /\ UNCHANGED <<stored, usage_tracking, month, saveResult,
                 organizations, organization_id, guards>>
  /\ UNCHANGED <<webhookVars, sessionVars, queueVars, inboundVars, pureVars>>

NextLimits ==
  \/ \E o \in Orgs : checkSubscriptionLimits(o)
  \/ \E o \in Orgs, p \in Months : usageQueryResolves(o, p)
  \/ \E o \in Orgs \cup {NoOrg} : checkAccountLimit(o)
  \/ \E id \in WaIds, d \in Directions :
       saveMessage(CHOOSE s \in LiveIds : TRUE, organization_id["s1"], id, d)
  \/ monthPasses

(***************************************************************************)
(* Specifications                                                          *)
(***************************************************************************)
Init ==
  /\ InitWebhook
  /\ InitSession
  /\ InitQueue
  /\ InitInbound
  /\ InitPureIdle
  /\ InitStore

Next ==
  \/ NextWebhook
  \/ NextSession
  \/ NextClient
  \/ NextQueue
  \/ NextInbound
  \/ NextRestore
  \/ NextRateLimit
  \/ NextPure
  \/ NextStore
  \/ NextLimits
  \/ NextListing

Spec == Init /\ [][Next]_vars

\* the webhook dispatcher alone
SpecWebhook == Init /\ [][NextWebhook]_vars

\* the dispatcher alone, every pending setTimeout callback firing in the end
SpecWebhookLive ==
  /\ Init
  /\ [][NextWebhook]_vars
  /\ \A m \in MsgIds, r \in RetryCounts : WF_vars(retryTimerFires(m, r))

\* the dispatcher and the listings of pending messages, over messages of
\* either direction and organisation, inserted in either order
InitListing ==
  /\ webhook_url = "https://hook.test/in"
  /\ endpoint = "flaky"
  /\ posts = [m \in MsgIds |-> 0]
  /\ retryTimers = [m \in MsgIds |-> [r \in RetryCounts |-> 0]]
  /\ webhook_logs = [m \in MsgIds |-> <<>>]
  /\ \E org \in [MsgIds -> Orgs], dir \in [MsgIds -> Directions],
        swap \in BOOLEAN :
       /\ org["m1"] = "o1"
       /\ dir["m1"] = "inbound"
       /\ messages = [m \in MsgIds |->
                        messageRow(org[m], dir[m],
                                   IF swap THEN 3 - Arrival(m) ELSE Arrival(m))]
  /\ pendingResult = [op |-> "none", org |-> Null, rows |-> <<>>]
  /\ InitSession
  /\ InitQueue
  /\ InitInbound
  /\ InitPureIdle
  /\ InitStore

SpecListing == InitListing /\ [][NextListing]_vars

\* the session supervisor and the reconnection controller alone
InitSessionOnly ==
  /\ InitWebhookIdle
  /\ InitSession
  /\ InitQueue
  /\ InitInbound
  /\ InitPureIdle
  /\ InitStore

SpecSession == InitSessionOnly /\ [][NextSession]_vars

\* the reconnection controller under rate limiting
SpecRateLimit == InitSessionOnly /\ [][NextRateLimit]_vars

\* the session life cycle and the methods that use the client
SpecClient == InitSessionOnly /\ [][NextLifeCycle \/ NextClient]_vars

\* the process starts after a crash: nothing is registered, and the rows of
\* whatsapp_sessions are as the crash left them
InitCrashed ==
  /\ sessions = [s \in SessionIds |-> NoHandle]
  /\ socks = <<>>
  /\ pendingCreates = [s \in SessionIds |-> [o \in Origins |-> 0]]
  /\ db \in [SessionIds ->
               {[DefaultRow EXCEPT !.status = st, !.auth_state = a,
                                   !.phone_number = IF st = "connected" THEN Phone
                                                    ELSE Null] :
                  st \in {"connecting", "connected", "disconnected", "error"},
                  a \in {Null, AuthState}}]
  /\ InitRestore
  /\ reconnectionAttempts = [s \in SessionIds |-> Absent]
  /\ reconnTimers = [s \in SessionIds |-> 0]
  /\ supTimers = [s \in SessionIds |-> 0]
  /\ rateTimers = [s \in SessionIds |-> 0]
  /\ authFiles = [s \in SessionIds |-> FALSE]
  /\ unhandled = {}
  /\ externalReset = [s \in SessionIds |-> FALSE]
  /\ destroyedAt = [s \in SessionIds |-> Absent]
  /\ lastOp = [op |-> "init", sid |-> Null, result |-> Null]

InitAfterCrash ==
  /\ InitWebhookIdle
  /\ InitCrashed
  /\ InitQueue
  /\ InitInbound
  /\ InitPureIdle
  /\ InitStore

SpecRestore == InitAfterCrash /\ [][NextRestore]_vars

\* a session that is registered and connected, with nothing else pending
InitConnected ==
  /\ sessions = [s \in SessionIds |->
                   IF s \in LiveIds
                   THEN [sock |-> 1, status |-> "connected", phoneNumber |-> Phone]
                   ELSE NoHandle]
  /\ socks = <<[sid |-> CHOOSE s \in LiveIds : TRUE, state |-> "open",
                callbacks |-> TRUE, onDisconnect |-> 0]>>
  /\ pendingCreates = [s \in SessionIds |-> [o \in Origins |-> 0]]
  /\ db = [s \in SessionIds |->
             IF s \in LiveIds
             THEN [DefaultRow EXCEPT !.status = "connected", !.phone_number = Phone,
                                     !.auth_state = AuthState]
             ELSE DefaultRow]
  /\ InitRestore
  /\ reconnectionAttempts = [s \in SessionIds |-> Absent]
  /\ reconnTimers = [s \in SessionIds |-> 0]
  /\ supTimers = [s \in SessionIds |-> 0]
  /\ rateTimers = [s \in SessionIds |-> 0]
  /\ authFiles = [s \in SessionIds |-> s \in LiveIds]
  /\ unhandled = {}
  /\ externalReset = [s \in SessionIds |-> FALSE]
  /\ destroyedAt = [s \in SessionIds |-> Absent]
  /\ lastOp = [op |-> "init", sid |-> Null, result |-> Null]

InitQueueOnly ==
  /\ InitWebhookIdle
  /\ InitConnected
  /\ InitQueue
  /\ InitInbound
  /\ InitPureIdle
  /\ InitStore

\* the outbound queue of a connected session
SpecQueue == InitQueueOnly /\ [][NextQueue]_vars

\* the reconnection of a connected session, when every setTimeout callback
\* is run in the end, every create that is suspended resumes and every
\* client that connects opens
SpecReconnect ==
  /\ InitQueueOnly
  /\ [][NextReconnect]_vars
  /\ \A s \in LiveIds :
       /\ WF_vars(supervisorTimerFires(s))
       /\ WF_vars(reconnectTimerFires(s))
       /\ \A o \in {"supervisor", "reconnect"} : WF_vars(createSessionResumes(s, o))
  /\ \A k \in 1 .. MaxSocks : WF_vars(k <= Len(socks) /\ connectionOpen(k))

\* the outbound queue without clearQueue, when every send settles, every
\* setTimeout callback is run in the end, and time goes on
SpecQueueLive ==
  /\ InitQueueOnly
  /\ [][NextQueueLive]_vars
  /\ \A i \in 1 .. MaxWorkers :
       /\ WF_vars(i <= Len(workers) /\ (sendResolves(i) \/ sendRejects(i)))
       /\ WF_vars(i <= Len(workers) /\ delayResolves(i))
  /\ WF_vars(timePasses(QueueHorizon))

\* the outbound queue under one bulk send that fills the rate limit
SpecThrottle == InitQueueOnly /\ [][NextThrottle]_vars

\* the outbound queue of a session that is destroyed
SpecOutbound == InitQueueOnly /\ [][NextOutbound]_vars

\* the inbound messages of a connected session
SpecInbound == InitQueueOnly /\ [][NextInbound]_vars

\* the functions without state, on every argument up to the bounds
InitPureOnly ==
  /\ InitWebhookIdle
  /\ InitSession
  /\ InitQueue
  /\ InitInbound
  /\ InitPure
  /\ InitStore

SpecPure == InitPureOnly /\ [][NextPure]_vars

\* the message store and the usage meter
SpecStore == InitSessionOnly /\ [][NextStore]_vars

\* the limit checks, for the first organisation on every plan and the rows
\* of whatsapp_sessions in every status
InitLimits ==
  /\ InitWebhookIdle
  /\ InitCrashed
  /\ \A s \in SessionIds :
       db[s].auth_state = Null /\ db[s].status \in {"connected", "error"}
  /\ InitQueue
  /\ InitInbound
  /\ InitPureIdle
  /\ InitMessages
  /\ \E plan \in [max_accounts : PlanLimits, max_messages_per_month : PlanLimits] :
       organizations = [o \in Orgs |-> IF o = "o1" THEN plan ELSE DefaultPlan]
  /\ organization_id \in [SessionIds -> Orgs]
  /\ organization_id["s1"] = "o1"
  /\ guards = {}
  /\ guardResult = [op |-> "none"]

SpecLimits == InitLimits /\ [][NextLimits]_vars

(***************************************************************************)
(* C1: for a message whose endpoint fails on every call, the dispatcher    *)
(* issues exactly 4 POSTs (the initial attempt plus maxRetries retries)    *)
(* and never another one from a retry timer.                               *)
(***************************************************************************)
C1_AtMostFourPosts ==
  endpoint = "down" => \A m \in MsgIds : posts[m] <= maxRetries + 1

(***************************************************************************)
(* C2: handleDisconnection called for a session whose attempt counter is   *)
(* at least maxAttempts sets the persisted status to error with the        *)
(* max-reconnection-attempts reason, removes the session's counter and     *)
(* schedules no reconnection timer.                                        *)
(***************************************************************************)
C2_MaxAttemptsStops ==
  [][\A s \in SessionIds :
       (lastOp'.op = "handleDisconnection" /\ lastOp'.sid = s
        /\ getAttempts(s) >= maxAttempts)
       => /\ db'[s].status = "error"
          /\ db'[s].error_message = "Max reconnection attempts exceeded (5)"
          /\ reconnectionAttempts'[s] = Absent
          /\ reconnTimers'[s] <= reconnTimers[s]]_vars

\* handleDisconnection has just taken its max-attempts branch
C2_Witness ==
  \E s \in SessionIds :
    /\ lastOp.op = "handleDisconnection" /\ lastOp.sid = s
    /\ db[s].status = "error"
    /\ db[s].reconnect_attempts = maxAttempts
    /\ reconnectionAttempts[s] = Absent

(***************************************************************************)
(* C3: a disconnect event (handleDisconnection call) for a session that    *)
(* already has a pending reconnection timer is a no-op: attempt counter,   *)
(* persisted attempt count and status stay as they are and no second timer *)
(* is scheduled.                                                           *)
(***************************************************************************)
C3_PendingTimerDebounces ==
  [][\A s \in SessionIds :
       (lastOp'.op = "handleDisconnection" /\ lastOp'.sid = s
        /\ lastOp'.result = "event" /\ reconnTimers[s] > 0)
       => /\ reconnectionAttempts'[s] = reconnectionAttempts[s]
          /\ db'[s] = db[s]
          /\ reconnTimers'[s] = reconnTimers[s]]_vars

(***************************************************************************)
(* C8: sendMessage and every group operation fail with the not-connected   *)
(* error, without reaching the client, whenever the session has no handle  *)
(* or its handle status is not connected; otherwise the call is passed to  *)
(* the client.                                                             *)
(***************************************************************************)
ClientOps ==
  {"sendMessage", "createGroup", "getGroups", "addGroupParticipants",
   "removeGroupParticipants", "promoteToAdmin", "leaveGroup", "getGroupMetadata"}

C8_NotConnectedGuard ==
  [][lastOp'.op \in ClientOps =>
       LET s == lastOp'.sid
       IN IF sessions[s] = NoHandle \/ sessions[s].status # "connected"
          THEN lastOp'.result = "not connected"
          ELSE lastOp'.result = "client"]_vars

\* a method was refused for a session that has a handle which is not connected
C8_Witness ==
  /\ lastOp.op \in ClientOps
  /\ lastOp.result = "not connected"
  /\ sessions[lastOp.sid] # NoHandle
  /\ sessions[lastOp.sid].status = "connecting"

(***************************************************************************)
(* C9: once a session's status is error it does not become connecting or   *)
(* connected again unless an explicit external reset (resetAttempts, or a  *)
(* create requested from outside) happened in between.                     *)
(***************************************************************************)
C9_ErrorIsLatched ==
  [][\A s \in SessionIds :
       (db[s].status = "error" /\ db'[s].status \in {"connecting", "connected"})
       => externalReset[s]]_vars

(***************************************************************************)
(* C10: whenever a session's status is set to connected, its persisted     *)
(* reconnect_attempts and the controller's in-memory counter are 0.        *)
(***************************************************************************)
C10_ConnectedWithZeroAttempts ==
  \A s \in SessionIds :
    (lastOp.op = "connectionOpen" /\ lastOp.sid = s /\ lastOp.result = "connected")
    => /\ db[s].status = "connected"
       /\ db[s].reconnect_attempts = 0
       /\ getAttempts(s) = 0

(***************************************************************************)
(* C11: destroySession cancels the pending reconnection timers of the      *)
(* session: after a destroy, with nothing created or scheduled for the     *)
(* session since, no createSession started by the supervisor's 3 s timer   *)
(* or by the controller's backoff timer makes a client or registers the    *)
(* session again.                                                          *)
(***************************************************************************)
C11_DestroyCancelsTimers ==
  [][\A s \in SessionIds :
       (/\ destroyedAt[s] # Absent
        /\ \E o \in {"reconnect", "supervisor"} :
              pendingCreates'[s][o] < pendingCreates[s][o])
       => /\ socks' = socks
          /\ sessions'[s] = NoHandle]_vars

(***************************************************************************)
(* C12: destroySession cancels the outbound worker of the session: after   *)
(* the destroy, and while the session is not created again, the worker     *)
(* makes no send attempt for an item that had been queued before the       *)
(* destroy (all items belong to the one session of SessionIds).            *)
(***************************************************************************)
C12_DestroyCancelsWorker ==
  [][\A s \in SessionIds : \A m \in 1 .. Len(qitems) :
       (/\ destroyedAt[s] # Absent
        /\ destroyedAt'[s] = destroyedAt[s]
        /\ m <= destroyedAt[s])
       => qitems'[m].tries = qitems[m].tries]_vars

(***************************************************************************)
(* C13: for a message handed to the dispatcher of an organisation whose    *)
(* endpoint fails on every call, the message's status is eventually        *)
(* failed, and its synced_to_ghl flag is false then and at all times.      *)
(***************************************************************************)
C13_ExhaustedRetriesMarkFailed ==
  \A m \in MsgIds :
    /\ (endpoint = "down" /\ webhook_url # Null /\ messages[m].dispatched)
         ~> (messages[m].status = "failed" /\ ~messages[m].synced_to_ghl)
    /\ [](endpoint = "down" => ~messages[m].synced_to_ghl)

\* a message was marked failed after the initial POST and three retries failed
C13_Witness ==
  \E m \in MsgIds :
    /\ endpoint = "down"
    /\ posts[m] >= maxRetries + 1
    /\ messages[m].status = "failed"
    /\ ~messages[m].synced_to_ghl

(***************************************************************************)
(* C14: whenever webhook_logs holds a success row for a message, the       *)
(* message has synced_to_ghl = true and its ghl_message_id is the id       *)
(* returned in the response that the row records.                          *)
(***************************************************************************)
C14_SuccessRowMatchesMessage ==
  \A m \in MsgIds : \A i \in 1 .. Len(webhook_logs[m]) :
    webhook_logs[m][i].status = "success"
    => /\ messages[m].synced_to_ghl
       /\ messages[m].ghl_message_id = webhook_logs[m][i].response_id

(***************************************************************************)
(* C15: every inbound message that the dispatcher has handled has at       *)
(* least one row in webhook_logs, whether or not the organisation has a    *)
(* webhook configured.                                                     *)
(***************************************************************************)
C15_EveryMessageIsLogged ==
  \A m \in MsgIds :
    messages[m].dispatched => Len(webhook_logs[m]) >= 1

(***************************************************************************)
(* C16: a connection close whose reason is not logged-out sets the         *)
(* persisted status to disconnected, leaves the registry as it is (the     *)
(* entry is not removed) and schedules a reconnection.                     *)
(***************************************************************************)
C16_LostConnectionKeepsEntry ==
  [][\A s \in SessionIds :
       (lastOp'.op = "connectionClose" /\ lastOp'.sid = s /\ lastOp'.result = "lost")
       => /\ db'[s].status = "disconnected"
          /\ sessions' = sessions
          /\ supTimers'[s] = supTimers[s] + 1]_vars

\* a registered session has just lost its connection
C16_Witness ==
  \E s \in SessionIds :
    /\ lastOp = [op |-> "connectionClose", sid |-> s, result |-> "lost"]
    /\ sessions[s] # NoHandle
    /\ db[s].status = "disconnected"
    /\ supTimers[s] > 0

(***************************************************************************)
(* C17: a connection close whose reason is logged-out sets the persisted   *)
(* status to disconnected, removes the registry entry, fires               *)
(* callbacks.onDisconnect exactly once, and schedules no reconnection:     *)
(* no timer and no createSession.                                          *)
(***************************************************************************)
C17_LoggedOutEndsSession ==
  [][\A s \in SessionIds :
       (lastOp'.op = "connectionClose" /\ lastOp'.sid = s
        /\ lastOp'.result = "loggedOut")
       => /\ db'[s].status = "disconnected"
          /\ sessions'[s] = NoHandle
          /\ supTimers' = supTimers
          /\ reconnTimers' = reconnTimers
          /\ pendingCreates' = pendingCreates
          /\ \A k \in 1 .. Len(socks) :
               (socks'[k].state # socks[k].state /\ socks[k].callbacks)
               => socks[k].onDisconnect = 0 /\ socks'[k].onDisconnect = 1]_vars

\* a registered session with callbacks has just been logged out
C17_Witness ==
  \E s \in SessionIds, k \in 1 .. Len(socks) :
    /\ lastOp = [op |-> "connectionClose", sid |-> s, result |-> "loggedOut"]
    /\ socks[k].sid = s /\ socks[k].state = "loggedOut"
    /\ socks[k].onDisconnect = 1
    /\ sessions[s] = NoHandle
    /\ db[s].status = "disconnected"

(***************************************************************************)
(* C18: createSession for an id that is in the registry fails with the     *)
(* already-exists error and leaves the handle of that id and the rest of   *)
(* the registry unchanged; no client is made.                              *)
(***************************************************************************)
C18_CreateExistingFails ==
  [][\A s \in SessionIds :
       (lastOp'.op = "createSession" /\ lastOp'.sid = s /\ sessions[s] # NoHandle)
       => /\ lastOp'.result = "already exists"
          /\ sessions' = sessions
          /\ socks' = socks
          /\ pendingCreates' = pendingCreates]_vars

\* createSession has just been refused for a registered id
C18_Witness ==
  \E s \in SessionIds :
    /\ lastOp = [op |-> "createSession", sid |-> s, result |-> "already exists"]
    /\ sessions[s] # NoHandle

(***************************************************************************)
(* C19: the events of one session are handled one after the other and in   *)
(* arrival order: at most one messages.upsert handler is running at any    *)
(* time, and the messages reach callbacks.onMessage in the order in which  *)
(* the client delivered them, also across batches.                         *)
(***************************************************************************)
C19_EventsHandledInOrder ==
  /\ Len(upserts) <= 1
  /\ \A i \in 1 .. Len(published), j \in 1 .. Len(published) :
       i < j => published[i] < published[j]

(***************************************************************************)
(* C21: a session whose status is connected has a phone number: in the     *)
(* registry handle phoneNumber is not null, and in the persisted record    *)
(* phone_number is not null.                                               *)
(***************************************************************************)
C21_ConnectedHasPhoneNumber ==
  \A s \in SessionIds :
    /\ sessions[s].status = "connected" => sessions[s].phoneNumber # Null
    /\ db[s].status = "connected" => db[s].phone_number # Null

\* the open handler has just connected a session
C21_Witness ==
  \E s \in SessionIds :
    /\ lastOp = [op |-> "connectionOpen", sid |-> s, result |-> "connected"]
    /\ sessions[s].status = "connected"
    /\ db[s].status = "connected"

(***************************************************************************)
(* C22: no handler and no timer callback ends with an exception or a       *)
(* rejected promise that nothing handles.                                  *)
(***************************************************************************)
C22_NothingUnhandled ==
  unhandled = {}

(***************************************************************************)
(* C23: restoreAllSessions isolates the failure of one session: when its   *)
(* loop has ended, createSession has been called for every row that        *)
(* getActiveSessions returned, so each of them is either registered or has *)
(* the status error with the message of the exception, and a row whose     *)
(* createSession was rejected has that status and message as soon as the   *)
(* rejection is caught.                                                    *)
(***************************************************************************)
C23_RestoreIsolatesFailures ==
  /\ restorePos > Len(activeSessions) =>
       \A i \in 1 .. Len(activeSessions) :
         \/ sessions[activeSessions[i]] # NoHandle
         \/ /\ db[activeSessions[i]].status = "error"
            /\ db[activeSessions[i]].error_message \in {"create failed", "already exists"}
  /\ lastOp.op = "restoreCatch" =>
       /\ db[lastOp.sid].status = "error"
       /\ db[lastOp.sid].error_message = lastOp.result

\* the loop has ended after the first row's createSession failed and the
\* second row's createSession made its client
C23_Witness ==
  /\ Len(activeSessions) = 2
  /\ restorePos = 3
  /\ db[activeSessions[1]].status = "error"
  /\ db[activeSessions[1]].error_message = "create failed"
  /\ sessions[activeSessions[2]] # NoHandle

(***************************************************************************)
(* C24: the rows that getActiveSessions returns to restoreAllSessions      *)
(* after a crash are exactly the sessions whose persisted status was       *)
(* connected or connecting when the process stopped.                       *)
(***************************************************************************)
C24_RestorableAreTheActiveOnes ==
  [][(lastOp.op = "init" /\ lastOp'.op = "restoreAllSessions")
     => {activeSessions'[i] : i \in 1 .. Len(activeSessions')}
          = {s \in SessionIds : db[s].status \in {"connected", "connecting"}}]_vars

(***************************************************************************)
(* C25: formatPhoneNumber is idempotent: a second call on the result of    *)
(* the first returns that result.                                          *)
(***************************************************************************)
C25_FormatIsIdempotent ==
  Len(formatted) >= 2 => formatted[2] = formatted[1]

C27_RateLimitOnlyOverridesDelay ==
  [][\A s \in SessionIds :
       (lastOp'.op = "rateLimitTimerFires" /\ lastOp'.sid = s)
       => /\ pendingCreates'[s]["reconnect"] = pendingCreates[s]["reconnect"] + 1
          /\ reconnTimers'[s] = reconnTimers[s]
          /\ db'[s].status # "error"]_vars

(***************************************************************************)
(* C28: destroySession of a registered session removes the registry entry  *)
(* and the auth files, also when the client is already closed and logout   *)
(* throws; destroySession of an id that is not registered fails with not   *)
(* found and changes nothing.                                              *)
(***************************************************************************)
C28_DestroyRemovesEntryAndFiles ==
  [][\A s \in SessionIds :
       (lastOp'.op = "destroySession" /\ lastOp'.sid = s)
       => IF sessions[s] # NoHandle
          THEN /\ sessions'[s] = NoHandle
               /\ ~authFiles'[s]
               /\ lastOp'.result = "destroyed"
          ELSE /\ lastOp'.result = "not found"
               /\ <<sessions, socks, pendingCreates, db, authFiles>>'
                    = <<sessions, socks, pendingCreates, db, authFiles>>]_vars

\* a session whose client had lost its connection has been destroyed
C28_Witness ==
  \E s \in SessionIds :
    /\ lastOp = [op |-> "destroySession", sid |-> s, result |-> "destroyed"]
    /\ Len(socks) = 1 /\ socks[1].sid = s /\ socks[1].state = "lost"
    /\ sessions[s] = NoHandle
    /\ ~authFiles[s]

(***************************************************************************)
(* C29: no two rows of table messages have the same message id and the     *)
(* same session.                                                           *)
(***************************************************************************)
C29_MessageIdUniquePerSession ==
  \A id \in WaIds, s \in SessionIds :
    countRows({r \in MessageRows : r.message_id = id /\ r.session_id = s}) <= 1

(***************************************************************************)
(* C30: for every organisation and month, the usage record holds in        *)
(* messages_sent the number of outbound messages and in messages_received  *)
(* the number of inbound messages stored for that organisation in that     *)
(* month, so each stored message was counted once, in one record; there is *)
(* no record where no message was stored.                                  *)
(***************************************************************************)
C30_UsageCountsEveryMessageOnce ==
  \A o \in Orgs, p \in Months :
    LET rows(d) == {r \in MessageRows : /\ r.organization_id = o
                                        /\ r.period = p
                                        /\ r.direction = d}
        u == usage_tracking[o][p]
    IN IF countRows(rows("outbound")) + countRows(rows("inbound")) = 0
       THEN u = NoUsage
       ELSE /\ u.messages_sent = countRows(rows("outbound"))
            /\ u.messages_received = countRows(rows("inbound"))

\* one organisation has sent and received in the first month and another
\* message was stored in the second
C30_Witness ==
  \E o \in Orgs :
    /\ usage_tracking[o][1] # NoUsage
    /\ usage_tracking[o][1].messages_sent >= 1
    /\ usage_tracking[o][1].messages_received >= 1
    /\ \E o2 \in Orgs : usage_tracking[o2][2] # NoUsage

C32_UnlimitedNeverRejected ==
  /\ guardResult.op = "checkSubscriptionLimits"
       => (organizations[guardResult.org].max_accounts = -1
             => guardResult.status # 403)
  /\ guardResult.op = "usageQueryResolves"
       => (organizations[guardResult.org].max_messages_per_month = -1
             => guardResult.status # 429)
  /\ (guardResult.op = "checkAccountLimit" /\ guardResult.status = 200)
       => (organizations[guardResult.org].max_accounts = -1
             => guardResult.canAdd)

(***************************************************************************)
(* C33: the listing of messages pending CRM sync returns, for an           *)
(* organisation, only messages that are inbound, not yet synced and not    *)
(* failed, oldest first and at most 100; SessionPersistence's              *)
(* getPendingGHLSync and GHLWebhookService's getPendingMessages return the *)
(* same list for the same store.                                           *)
(***************************************************************************)
C33_PendingListing ==
  \A o \in Orgs :
    LET rows == getPendingGHLSync(messages, o)
    IN /\ \A i \in 1 .. Len(rows) :
            /\ messages[rows[i]].organization_id = o
            /\ messages[rows[i]].direction = "inbound"
            /\ messages[rows[i]].synced_to_ghl = FALSE
            /\ messages[rows[i]].status # "failed"
       /\ \A i, j \in 1 .. Len(rows) :
            i < j => messages[rows[i]].timestamp <= messages[rows[j]].timestamp
       /\ Len(rows) <= listLimit
       /\ rows = getPendingMessages(messages, o)

(***************************************************************************)
(* C34: a non-text outbound send is rejected: it is not accepted into the  *)
(* session's queue and the worker never attempts or retries it.            *)
(***************************************************************************)
C34_NonTextIsRejected ==
  \A m \in 1 .. Len(qitems) :
    qitems[m].type # "text"
      => /\ qitems[m].tries = 0
         /\ \A a \in 1 .. Len(arrays) : m \notin itemsOf(arrays[a])

(***************************************************************************)
(* C35: registry mutations are serialized per session: when two            *)
(* createSession calls for one id overlap, only one of them creates a      *)
(* client socket (the other fails with already-exists); at no time do two  *)
(* live client sockets exist for one session id.                           *)
(***************************************************************************)
C35_OneLiveSocketPerSession ==
  \A s \in SessionIds :
    Cardinality({k \in 1 .. Len(socks) :
                   /\ socks[k].sid = s
                   /\ socks[k].state \in {"connecting", "open"}}) <= 1

(***************************************************************************)
(* C36: from a connection-close event of a session until its next          *)
(* connection-open event, sendMessage for that session fails with the      *)
(* not-connected error: while the socket of the session's handle is        *)
(* closed, the status that sendMessage consults is not connected.          *)
(***************************************************************************)
C36_ClosedSessionRefusesSend ==
  [][(/\ lastOp'.op = "sendMessage"
      /\ sessions[lastOp'.sid] # NoHandle
      /\ socks[sessions[lastOp'.sid].sock].state \notin {"connecting", "open"})
       => lastOp'.result = "not connected"]_vars

(***************************************************************************)
(* C37: under every interleaving of enqueue, clearQueue and worker steps,  *)
(* each enqueued message is successfully handed to the client at most      *)
(* once, and a message leaves its array only in the step in which it was   *)
(* itself sent or itself dropped after its last failed attempt (the        *)
(* removal by clearQueue detaches the whole array).                        *)
(***************************************************************************)
C37_SentOnceAndPoppedForItself ==
  /\ [](\A m \in 1 .. Len(qitems) : qitems[m].sent <= 1)
  /\ [][\A a \in 1 .. Len(arrays) : \A m \in itemsOf(arrays[a]) :
          m \notin itemsOf(arrays'[a])
            => \/ qitems'[m].sent = qitems[m].sent + 1
               \/ qitems'[m].dropped /\ ~qitems[m].dropped]_vars

(***************************************************************************)
(* C38: after clearQueue(s) has returned, no message that was in the queue *)
(* of s at the time of the call is attempted by a worker any more, also    *)
(* when the worker was suspended in a send or a delay at the call.  The    *)
(* messages cleared are those of an array that no session's Map entry      *)
(* refers to any longer.                                                   *)
(***************************************************************************)
C38_ClearedIsNeverAttempted ==
  [][\A a \in 1 .. Len(arrays) :
       (\A s \in SessionIds : queues[s] # a)
         => \A m \in itemsOf(arrays[a]) :
              qitems'[m].tries = qitems[m].tries]_vars

C40_ReconnectsAfterClose ==
  \A s \in LiveIds :
    (/\ lastOp.op = "connectionClose" /\ lastOp.sid = s
     /\ lastOp.result = "lost"
     /\ Len(socks) = 1)
      ~> \/ /\ sessions[s] # NoHandle
            /\ socks[sessions[s].sock].state = "open"
            /\ db[s].status = "connected"
            /\ getAttempts(s) = 0
         \/ lastOp.op = "destroySession" /\ lastOp.sid = s

(***************************************************************************)
(* C20: a session whose persisted status is error has a persisted          *)
(* reconnect_attempts of at least maxAttempts.                             *)
(***************************************************************************)
C20_ErrorMeansAttemptsExhausted ==
  \A s \in SessionIds :
    db[s].status = "error" => db[s].reconnect_attempts >= maxAttempts

\* C4: for each session the worker sends in enqueue order: when item a was
\* enqueued before item b (ids are given in enqueue order), b has not been
\* sent successfully while a still waits in the session's queue without
\* having been sent.
C4_SendsInEnqueueOrder ==
  \A s \in SessionIds : \A a \in 1 .. Len(qitems), b \in 1 .. Len(qitems) :
    (/\ a < b
     /\ qitems[b].sent > 0
     /\ queues[s] # 0
     /\ a \in itemsOf(arrays[queues[s]]))
    => qitems[a].sent > 0

\* C5: each queued item is attempted at most 3 times by the worker: the
\* number of times sendMessage was called for it never exceeds 3, and once
\* it was dropped after its last failed attempt it is in no array any more.
C5_AtMostThreeAttempts ==
  \A m \in 1 .. Len(qitems) :
    /\ qitems[m].tries <= maxSendAttempts
    /\ qitems[m].dropped => \A a \in 1 .. Len(arrays) : m \notin itemsOf(arrays[a])

\* C6: token bucket: once 20 sends of a session were started within one
\* 60-second window, the 21st send is started at least one refill interval
\* (60 s) after the 20th.
C6_TwentyFirstSendWaits ==
  \A j \in 1 .. Len(sendTimes) :
    (/\ j > messagesPerMinute
     /\ sendTimes[j - 1] - sendTimes[j - messagesPerMinute] < refillInterval)
    => sendTimes[j] - sendTimes[j - 1] >= refillInterval

\* C7: the worker is single-flight: at any time at most one processQueue
\* activation is running for a session.
C7_SingleFlight ==
  \A s \in SessionIds :
    Cardinality({i \in 1 .. Len(workers) : workers[i].sid = s}) <= 1
====
